---------------------------- MODULE Spec2Model ----------------------------
(***************************************************************************)
(* Model of the gesture classification and stabilisation pipeline of the  *)
(* sign-language translator: the hand detector's quality filter, the      *)
(* letter, syllable, complete-word and control classifiers with their     *)
(* stabilisers, and MainWindow.detection_loop which runs them per frame.  *)
(*                                                                         *)
(* Coordinates are integers: one unit is 0.0005 of the normalised image,  *)
(* so that every threshold of the source (multiples of 0.005) and every   *)
(* weighted average of the smoothing filters is exact.  Landmarks that    *)
(* come from the camera lie on a grid of 10 units.  A landmark list is a  *)
(* sequence of <<x, y, z>> triples (21 for a well-formed hand); None and  *)
(* the empty list are the empty sequence.                                  *)
(***************************************************************************)
EXTENDS Integers, Sequences, FiniteSets, TLC

None == "None"
NoHand == << >>

\* ------------------------------------------------------------------------
\* Geometry helpers (numpy calls of the detectors)
\* ------------------------------------------------------------------------

\* landmark i (0-based, as in the source) of a landmark list
P(lm, i) == lm[i + 1]

\* len(landmarks) of the flat list the source handles: three values a point
FlatLen(lm) == 3 * Len(lm)

\* np.linalg.norm(p - q) ** 2
Dist2(p, q) ==
    (p[1] - q[1]) * (p[1] - q[1]) + (p[2] - q[2]) * (p[2] - q[2])
        + (p[3] - q[3]) * (p[3] - q[3])

\* np.linalg.norm(p - q) < t   and   > t   (t in units, t >= 0)
DistLt(p, q, t) == Dist2(p, q) < t * t
DistGt(p, q, t) == Dist2(p, q) > t * t

Abs(x) == IF x < 0 THEN -x ELSE x

\* The vector p - q on the camera grid (10 units); angles are taken on it.
GridVec(p, q) ==
    << (p[1] - q[1]) \div 10, (p[2] - q[2]) \div 10, (p[3] - q[3]) \div 10 >>

Dot(v, w) == v[1] * w[1] + v[2] * w[2] + v[3] * w[3]

\* lo < _angle(p1, p2, p3) < hi for the ranges the classifier asks about.
\* _angle is 0 when one of the two vectors has length 0; otherwise it is
\* arccos of the clipped cosine, in degrees.  cosNum/cosDen bound cos^2 of
\* the limit angles: 1/2 for 45 and 135, 3/4 for 150, 27/46 for 40 and
\* 3/100 for 80 degrees.
CosIn(d, n1, n2, range) ==
    IF n1 = 0 \/ n2 = 0 THEN FALSE
    ELSE CASE range = "45_90"  -> d > 0 /\ 2 * d * d < n1 * n2
           [] range = "90_135" -> d < 0 /\ 2 * d * d < n1 * n2
           [] range = "90_150" -> d < 0 /\ 4 * d * d < 3 * n1 * n2
           [] range = "40_80"  -> d > 0 /\ 46 * d * d < 27 * n1 * n2
                                        /\ 100 * d * d > 3 * n1 * n2

AngleIn(p1, p2, p3, range) ==
    LET v1 == GridVec(p1, p2)
        v2 == GridVec(p3, p2)
    IN  CosIn(Dot(v1, v2), Dot(v1, v1), Dot(v2, v2), range)


\* ------------------------------------------------------------------------
\* GestureClassifier: features and the letter cascade
\* ------------------------------------------------------------------------

\* Thresholds of the source in units of 0.0005: 0.015 is 30, 0.025 is 50,
\* 0.05 is 100, 0.10 is 200, and so on.
extract_ultra_precise_features(lm) ==
    LET wrist == P(lm, 0)
        thumb_mcp == P(lm, 2)   thumb_ip == P(lm, 3)    thumb_tip == P(lm, 4)
        index_mcp == P(lm, 5)   index_pip == P(lm, 6)   index_tip == P(lm, 8)
        middle_mcp == P(lm, 9)  middle_pip == P(lm, 10) middle_tip == P(lm, 12)
        ring_mcp == P(lm, 13)   ring_pip == P(lm, 14)   ring_tip == P(lm, 16)
        pinky_mcp == P(lm, 17)  pinky_pip == P(lm, 18)  pinky_tip == P(lm, 20)
        thumb_ext  == thumb_tip[2] < thumb_ip[2] - 30
        index_ext  == index_tip[2] < index_pip[2] - 50
        middle_ext == middle_tip[2] < middle_pip[2] - 50
        ring_ext   == ring_tip[2] < ring_pip[2] - 50
        pinky_ext  == pinky_tip[2] < pinky_pip[2] - 50
        thumb_left  == thumb_tip[1] < index_mcp[1] - 100
        thumb_right == thumb_tip[1] > pinky_mcp[1] + 100
        thumb_center == ~thumb_left /\ ~thumb_right
        index_horiz == Abs(index_tip[1] - index_mcp[1]) > Abs(index_tip[2] - index_mcp[2])
        middle_horiz == Abs(middle_tip[1] - middle_mcp[1]) > Abs(middle_tip[2] - middle_mcp[2])
        index_left_of_middle == index_tip[1] < middle_tip[1] - 40
        B2N(b) == IF b THEN 1 ELSE 0
        fingers_count == B2N(thumb_ext) + B2N(index_ext) + B2N(middle_ext)
                            + B2N(ring_ext) + B2N(pinky_ext)
        fist == fingers_count = 0
        two_middle_up == index_ext /\ middle_ext /\ ~ring_ext
        index_middle_40_80 == AngleIn(index_tip, index_mcp, middle_tip, "40_80")
    IN  [ thumb_ext |-> thumb_ext, index_ext |-> index_ext,
          middle_ext |-> middle_ext, ring_ext |-> ring_ext,
          pinky_ext |-> pinky_ext,
          thumb_left |-> thumb_left, thumb_center |-> thumb_center,
          index_horiz |-> index_horiz, middle_horiz |-> middle_horiz,
          index_left_of_middle |-> index_left_of_middle,
          fingers_count |-> fingers_count, fist |-> fist,
          index_curved_45_90 |-> AngleIn(index_mcp, index_pip, index_tip, "45_90"),
          index_middle_40_80 |-> index_middle_40_80,
          three_middle_up |-> index_ext /\ middle_ext /\ ring_ext,
          two_middle_up |-> two_middle_up,
          k_formation |-> index_ext /\ middle_ext /\ ~ring_ext /\ ~pinky_ext
                          /\ DistLt(thumb_tip, middle_tip, 180)
                          /\ index_middle_40_80,
          p_formation |-> index_ext /\ middle_ext /\ ~ring_ext /\ ~pinky_ext
                          /\ DistLt(thumb_tip, middle_tip, 180)
                          /\ index_tip[2] > middle_tip[2],
          u_formation |-> two_middle_up /\ DistLt(index_tip, middle_tip, 90)
                          /\ Abs(index_tip[2] - middle_tip[2]) < 60,
          e_formation |-> fist
                          /\ AngleIn(index_mcp, index_pip, index_tip, "90_150")
                          /\ AngleIn(middle_mcp, middle_pip, middle_tip, "90_150")
                          /\ AngleIn(ring_mcp, ring_pip, ring_tip, "90_150")
                          /\ AngleIn(pinky_mcp, pinky_pip, pinky_tip, "90_150"),
          g_formation |-> index_ext /\ ~middle_ext /\ thumb_ext /\ index_horiz
                          /\ DistGt(thumb_tip, index_tip, 240),
          j_formation |-> ~index_ext /\ ~middle_ext /\ ~ring_ext /\ pinky_ext
                          /\ pinky_tip[1] < pinky_mcp[1],
          ny_formation |-> two_middle_up /\ ~thumb_ext
                          /\ DistLt(index_tip, middle_tip, 80),
          ll_formation |-> index_ext /\ thumb_ext /\ ~middle_ext /\ ~ring_ext
                          /\ DistGt(thumb_tip, index_tip, 300) /\ thumb_left,
          rr_formation |-> two_middle_up /\ DistLt(index_tip, middle_tip, 50)
                          /\ index_left_of_middle,
          t_formation |-> fist /\ thumb_center
                          /\ DistLt(thumb_tip, index_mcp, 120)
                          /\ thumb_tip[2] > index_mcp[2] - 40,
          m_formation |-> ~index_ext /\ ~middle_ext /\ ~ring_ext /\ ~pinky_ext
                          /\ thumb_ext /\ thumb_tip[2] < index_mcp[2]
                          /\ DistLt(thumb_tip, index_tip, 160)
                          /\ DistLt(thumb_tip, middle_tip, 160)
                          /\ DistLt(thumb_tip, ring_tip, 160),
          r_improved |-> index_ext /\ middle_ext /\ ~ring_ext /\ ~pinky_ext
                          /\ DistLt(index_tip, middle_tip, 100)
                          /\ (index_left_of_middle
                                \/ Abs(index_tip[1] - middle_tip[1]) < 50),
          n_formation |-> ~index_ext /\ ~middle_ext /\ ring_ext /\ pinky_ext
                          /\ ~thumb_ext /\ thumb_tip[2] < index_mcp[2]
                          /\ DistLt(thumb_tip, index_tip, 160)
                          /\ DistLt(thumb_tip, middle_tip, 160) ]

\* The ordered cascade: the first clause that matches wins; None when no
\* clause matches.
classify_with_enhanced_rules(f, lm) ==
    LET thumb_tip == P(lm, 4)   index_mcp == P(lm, 5)
        index_tip == P(lm, 8)   middle_tip == P(lm, 12)
        ring_tip == P(lm, 16)   pinky_tip == P(lm, 20)
        one_up == f.index_ext /\ ~f.middle_ext /\ ~f.ring_ext /\ ~f.pinky_ext
        q_check1 == one_up /\ f.thumb_ext
                     /\ DistGt(thumb_tip, index_tip, 140)
                     /\ DistLt(thumb_tip, index_tip, 500)
        q_check2 == P(lm, 8)[2] > P(lm, 5)[2] - 100
        q_check3 == P(lm, 4)[2] > P(lm, 2)[2] - 100
    IN  IF q_check1 /\ (q_check2 \/ q_check3)
            THEN "Q"
        ELSE IF f.e_formation
            THEN "E"
        ELSE IF f.t_formation
            THEN "T"
        ELSE IF f.m_formation
            THEN "M"
        ELSE IF f.n_formation
            THEN "N"
        ELSE IF f.ny_formation
            THEN "N~"
        ELSE IF f.k_formation
            THEN "K"
        ELSE IF f.p_formation
            THEN "P"
        ELSE IF f.u_formation
            THEN "U"
        ELSE IF f.g_formation
            THEN "G"
        ELSE IF f.j_formation
            THEN "J"
        ELSE IF f.ll_formation /\ DistGt(thumb_tip, index_tip, 300)
            THEN "LL"
        ELSE IF f.rr_formation
            THEN "RR"
        ELSE IF f.index_curved_45_90 /\ ~f.middle_ext /\ ~f.ring_ext /\ ~f.pinky_ext
            THEN "X"
        ELSE IF f.fist /\ f.thumb_center /\ DistLt(thumb_tip, index_mcp, 100)
            THEN "T"
        ELSE IF ~f.index_ext /\ ~f.middle_ext /\ ~f.ring_ext /\ f.pinky_ext /\ f.thumb_ext /\ DistGt(thumb_tip, pinky_tip, 240)
            THEN "Y"
        ELSE IF ~f.index_ext /\ ~f.middle_ext /\ ~f.ring_ext /\ f.pinky_ext /\ ~f.thumb_ext
            THEN "I"
        ELSE IF one_up /\ DistLt(thumb_tip, middle_tip, 200)
            THEN "D"
        ELSE IF one_up /\ f.thumb_ext /\ f.thumb_left /\ DistGt(thumb_tip, index_tip, 200) /\ DistLt(thumb_tip, index_tip, 360)
            THEN "L"
        ELSE IF f.index_ext /\ f.middle_ext /\ ~f.ring_ext /\ ~f.pinky_ext /\ DistGt(index_tip, middle_tip, 120) /\ ~f.thumb_ext
            THEN "V"
        ELSE IF f.two_middle_up /\ f.index_horiz /\ f.middle_horiz /\ DistLt(index_tip, middle_tip, 120)
            THEN "H"
        ELSE IF f.r_improved
            THEN "R"
        ELSE IF f.index_ext /\ f.middle_ext /\ ~f.ring_ext /\ ~f.pinky_ext /\ ~f.thumb_ext /\ DistLt(index_tip, middle_tip, 100)
            THEN "R"
        ELSE IF f.two_middle_up /\ DistLt(index_tip, middle_tip, 80) /\ f.index_left_of_middle
            THEN "R"
        ELSE IF f.three_middle_up /\ ~f.pinky_ext /\ ~f.thumb_ext
            THEN "W"
        ELSE IF f.index_ext /\ f.middle_ext /\ f.ring_ext /\ f.pinky_ext /\ ~f.thumb_ext /\ DistLt(index_tip, middle_tip, 100) /\ DistLt(middle_tip, ring_tip, 100)
            THEN "B"
        ELSE IF ~f.index_ext /\ f.middle_ext /\ f.ring_ext /\ f.pinky_ext /\ DistLt(thumb_tip, index_tip, 160)
            THEN "F"
        ELSE IF ~f.index_ext /\ ~f.middle_ext /\ f.ring_ext /\ f.pinky_ext /\ ~f.thumb_ext
            THEN "N"
        ELSE IF f.fist /\ f.thumb_left /\ ~f.thumb_ext
            THEN "A"
        ELSE IF f.fist /\ ~f.thumb_left /\ ~f.thumb_ext
            THEN "S"
        ELSE IF f.fist /\ f.thumb_ext /\ ~f.thumb_left
            THEN "M"
        ELSE IF DistLt(thumb_tip, index_tip, 200) /\ f.fingers_count <= 2
            THEN "O"
        ELSE IF f.fingers_count >= 2 /\ DistGt(thumb_tip, index_tip, 160) /\ DistLt(thumb_tip, index_tip, 400)
            THEN "C"
        ELSE IF one_up /\ f.index_horiz
            THEN "Z"
        ELSE None

\* _classify_complete_alphabet: the cascade on the first 21 landmarks.
classify_complete_alphabet(lm) ==
    IF FlatLen(lm) < 63 THEN None
    ELSE classify_with_enhanced_rules(
             extract_ultra_precise_features(SubSeq(lm, 1, 21)), SubSeq(lm, 1, 21))

\* _calculate_gesture_confidence, in hundredths: base 0.5, plus 0.3 (and
\* 0.2 more) for the five letters with a formation test, else plus 0.3
\* when the finger count is one of 0..5.
confidence_of_features(letter, f, lm) ==
    LET raw ==
          CASE letter = "K" /\ f.k_formation ->
                 50 + 30 + (IF f.index_middle_40_80 THEN 20 ELSE 0)
            [] letter = "P" /\ f.p_formation ->
                 50 + 30 + (IF DistLt(P(lm, 4), P(lm, 12), 180) THEN 20 ELSE 0)
            [] letter = "U" /\ f.u_formation ->
                 50 + 30 + (IF DistLt(P(lm, 8), P(lm, 12), 90) THEN 20 ELSE 0)
            [] letter = "E" /\ f.e_formation ->
                 50 + 30 + (IF f.fist THEN 20 ELSE 0)
            [] letter = "G" /\ f.g_formation ->
                 50 + 30 + (IF DistGt(P(lm, 4), P(lm, 8), 240) THEN 20 ELSE 0)
            [] OTHER ->
                 50 + (IF f.fingers_count \in 0..5 THEN 30 ELSE 0)
    IN  IF raw > 100 THEN 100 ELSE raw

calculate_gesture_confidence(letter, lm) ==
    confidence_of_features(letter, extract_ultra_precise_features(lm), lm)

\* ------------------------------------------------------------------------
\* SyllableClassifier: one letter per hand, combined into a syllable
\* ------------------------------------------------------------------------

extract_hand_features(lm) ==
    LET B2N(b) == IF b THEN 1 ELSE 0
        thumb_extended  == P(lm, 4)[2] < P(lm, 3)[2]
        index_extended  == P(lm, 8)[2] < P(lm, 6)[2]
        middle_extended == P(lm, 12)[2] < P(lm, 10)[2]
        ring_extended   == P(lm, 16)[2] < P(lm, 14)[2]
        pinky_extended  == P(lm, 20)[2] < P(lm, 18)[2]
        fingers_count == B2N(thumb_extended) + B2N(index_extended)
                           + B2N(middle_extended) + B2N(ring_extended)
                           + B2N(pinky_extended)
    IN  [ thumb_extended |-> thumb_extended, index_extended |-> index_extended,
          middle_extended |-> middle_extended, ring_extended |-> ring_extended,
          pinky_extended |-> pinky_extended,
          thumb_index_near |-> DistLt(P(lm, 4), P(lm, 8), 160),
          index_middle_near |-> DistLt(P(lm, 8), P(lm, 12), 100),
          fingers_count |-> fingers_count,
          fist_closed |-> fingers_count = 0 ]

detect_consonant(f) ==
    IF ~f.index_extended /\ ~f.middle_extended /\ ~f.ring_extended
          /\ f.thumb_extended
        THEN "M"
    ELSE IF f.index_extended /\ f.middle_extended /\ ~f.ring_extended
          /\ ~f.pinky_extended
        THEN "P"
    ELSE IF f.index_extended /\ ~f.middle_extended /\ ~f.ring_extended
          /\ ~f.pinky_extended /\ f.thumb_extended
        THEN "L"
    ELSE IF f.fist_closed /\ f.thumb_extended
        THEN "T"
    ELSE IF f.fist_closed
        THEN "S"
    ELSE None

detect_vowel(f) ==
    IF f.fist_closed /\ ~f.thumb_extended
        THEN "A"
    ELSE IF ~f.index_extended /\ ~f.middle_extended /\ f.thumb_extended
        THEN "E"
    ELSE IF ~f.index_extended /\ ~f.middle_extended /\ ~f.ring_extended
          /\ f.pinky_extended
        THEN "I"
    ELSE IF f.thumb_index_near /\ f.fingers_count <= 2
        THEN "O"
    ELSE IF f.index_extended /\ f.middle_extended /\ ~f.ring_extended
          /\ ~f.pinky_extended /\ f.index_middle_near
        THEN "U"
    ELSE None

\* consonants on the left hand, vowels on the right hand
detect_letter_in_hand(lm, hand_side) ==
    IF FlatLen(lm) < 63 THEN None
    ELSE IF hand_side = "left"
        THEN detect_consonant(extract_hand_features(SubSeq(lm, 1, 21)))
    ELSE detect_vowel(extract_hand_features(SubSeq(lm, 1, 21)))

supported_syllables ==
    { "MA", "ME", "MI", "MO", "MU", "PA", "PE", "PI", "PO", "PU",
      "LA", "LE", "LI", "LO", "LU" }

\* combine_letters_to_syllable without the test on supported_syllables
combine_letters_unchecked(consonant, vowel) ==
    IF consonant = None \/ vowel = None THEN None
    ELSE consonant \o vowel

combine_letters_to_syllable(consonant, vowel) ==
    IF consonant = None \/ vowel = None THEN None
    ELSE IF (consonant \o vowel) \in supported_syllables
        THEN consonant \o vowel
    ELSE None

\* ------------------------------------------------------------------------
\* CompleteWordDetector: one pose, one word
\* ------------------------------------------------------------------------

classify_word_gesture(lm) ==
    LET wrist == P(lm, 0)
        thumb_mcp == P(lm, 2)   thumb_ip == P(lm, 3)    thumb_tip == P(lm, 4)
        index_mcp == P(lm, 5)   index_pip == P(lm, 6)   index_tip == P(lm, 8)
        middle_mcp == P(lm, 9)  middle_pip == P(lm, 10) middle_tip == P(lm, 12)
        ring_pip == P(lm, 14)   ring_tip == P(lm, 16)
        pinky_pip == P(lm, 18)  pinky_tip == P(lm, 20)
        thumb_up  == thumb_tip[2] < thumb_ip[2] - 60
        index_up  == index_tip[2] < index_pip[2] - 60
        middle_up == middle_tip[2] < middle_pip[2] - 60
        ring_up   == ring_tip[2] < ring_pip[2] - 60
        pinky_up  == pinky_tip[2] < pinky_pip[2] - 60
        four_up == index_up /\ middle_up /\ ring_up /\ pinky_up
    IN  IF Len(lm) < 21 THEN None
        ELSE IF thumb_up /\ ~index_up /\ ~middle_up /\ ~ring_up /\ ~pinky_up
              /\ thumb_tip[2] < wrist[2] - 200
            THEN "THUMBS_UP"
        ELSE IF index_up /\ middle_up /\ ~ring_up /\ ~pinky_up /\ ~thumb_up
              /\ DistGt(index_tip, middle_tip, 120)
            THEN "PEACE"
        ELSE IF DistLt(thumb_tip, index_tip, 120) /\ middle_up /\ ring_up
              /\ pinky_up
            THEN "OK_SIGN"
        ELSE IF four_up /\ thumb_up /\ DistLt(index_tip, middle_tip, 80)
              /\ Abs(index_tip[1] - middle_tip[1]) < 60
            THEN "PRAY_HANDS"
        ELSE IF index_up /\ ~middle_up /\ ~ring_up /\ ~pinky_up /\ ~thumb_up
              /\ index_tip[2] < index_mcp[2] - 160
            THEN "POINTING_UP"
        ELSE IF thumb_up /\ ~index_up /\ ~middle_up /\ ~ring_up /\ pinky_up
              /\ DistGt(thumb_tip, pinky_tip, 300)
            THEN "SHAKA"
        ELSE IF thumb_up /\ index_up /\ ~middle_up
              /\ DistLt(thumb_tip, index_tip, 200)
              /\ thumb_tip[2] < index_mcp[2] /\ index_tip[2] < index_mcp[2]
            THEN "HEART_HANDS"
        ELSE IF thumb_up /\ pinky_up /\ ~index_up /\ ~middle_up /\ ~ring_up
              /\ thumb_tip[1] < wrist[1] - 100
            THEN "CALL_ME"
        ELSE IF thumb_tip[2] > thumb_mcp[2] + 100
              /\ ~index_up /\ ~middle_up /\ ~ring_up /\ ~pinky_up
            THEN "THUMBS_DOWN"
        ELSE IF ~index_up /\ ~middle_up /\ ~ring_up /\ ~pinky_up /\ ~thumb_up
              /\ wrist[2] > index_mcp[2]
            THEN "FIST_UP"
        ELSE IF four_up /\ ~thumb_up /\ DistLt(index_tip, middle_tip, 100)
              /\ Abs(index_tip[2] - middle_tip[2]) < 80
            THEN "STOP_HAND"
        ELSE IF four_up /\ ~thumb_up /\ index_pip[2] < index_mcp[2]
              /\ middle_pip[2] < middle_mcp[2]
            THEN "COME_HERE"
        ELSE IF four_up /\ thumb_up
              /\ Abs(index_tip[1] - middle_tip[1]) > 160
            THEN "WAIT_HAND"
        ELSE IF thumb_up /\ index_up /\ middle_up /\ ~ring_up /\ ~pinky_up
              /\ DistLt(thumb_tip, index_tip, 240)
              /\ DistLt(thumb_tip, middle_tip, 240)
            THEN "LOVE_HEART"
        ELSE IF thumb_up /\ pinky_up /\ ~index_up /\ ~middle_up /\ ~ring_up
              /\ thumb_tip[1] > wrist[1] /\ DistGt(thumb_tip, pinky_tip, 240)
            THEN "PHONE_CALL"
        ELSE IF index_up /\ middle_up /\ ~ring_up /\ ~pinky_up /\ ~thumb_up
              /\ index_tip[2] > index_mcp[2] - 100
            THEN "NOW_SIGN"
        ELSE IF index_up /\ ~middle_up /\ ~ring_up /\ ~pinky_up /\ thumb_up
              /\ Abs(thumb_tip[1] - index_tip[1]) < 120
            THEN "FRIEND_LINK"
        ELSE IF DistLt(thumb_tip, index_tip, 80)
              /\ DistLt(thumb_tip, middle_tip, 80) /\ ~ring_up /\ ~pinky_up
            THEN "MONEY_RUB"
        ELSE IF four_up /\ thumb_up /\ index_tip[2] < wrist[2] - 240
            THEN "HOME_SIGN"
        ELSE None

\* self.word_gestures.get(gesture_type), for the gestures the classifier
\* can return
word_gestures(gesture_type) ==
    CASE gesture_type = "THUMBS_UP" -> "HOLA"
      [] gesture_type = "PEACE" -> "BUENOS"
      [] gesture_type = "OK_SIGN" -> "GRACIAS"
      [] gesture_type = "PRAY_HANDS" -> "POR FAVOR"
      [] gesture_type = "POINTING_UP" -> "NECESITO"
      [] gesture_type = "SHAKA" -> "OK"
      [] gesture_type = "HEART_HANDS" -> "TE AMO"
      [] gesture_type = "CALL_ME" -> "AYUDA"
      [] gesture_type = "THUMBS_DOWN" -> "NO"
      [] gesture_type = "FIST_UP" -> "BIEN"
      [] gesture_type = "STOP_HAND" -> "ALTO"
      [] gesture_type = "COME_HERE" -> "VEN"
      [] gesture_type = "WAIT_HAND" -> "ESPERA"
      [] gesture_type = "LOVE_HEART" -> "AMOR"
      [] gesture_type = "PHONE_CALL" -> "TELEFONO"
      [] gesture_type = "NOW_SIGN" -> "AHORA"
      [] gesture_type = "FRIEND_LINK" -> "AMIGO"
      [] gesture_type = "MONEY_RUB" -> "DINERO"
      [] gesture_type = "HOME_SIGN" -> "CASA"
      [] OTHER -> None

\* ------------------------------------------------------------------------
\* GestureControls: the two-hand tests behind CLEAR and SPACE
\* ------------------------------------------------------------------------

\* number of fingers whose tip lies more than `gap` above its base
TipsAboveBase(lm, gap) ==
    Cardinality({ k \in { <<4, 2>>, <<8, 5>>, <<12, 9>>, <<16, 13>>, <<20, 17>> } :
                    P(lm, k[1])[2] < P(lm, k[2])[2] - gap })

is_hand_fully_open(lm) == TipsAboveBase(lm, 40) >= 4

is_fist(lm) == TipsAboveBase(lm, 60) = 0

\* both_hands_data is the hands_data record of the frame.  A hand with
\* fewer than 21 points makes the indexing raise, which the source catches
\* and answers False.
detect_space_both_hands(both_hands_data) ==
    LET left == both_hands_data.left
        right == both_hands_data.right
    IN  IF left = NoHand \/ right = NoHand THEN FALSE
        ELSE IF Len(left) < 21 \/ Len(right) < 21 THEN FALSE
        ELSE is_hand_fully_open(left) /\ is_hand_fully_open(right)

detect_clear_gesture(both_hands_data) ==
    LET left == both_hands_data.left
        right == both_hands_data.right
    IN  IF left = NoHand \/ right = NoHand THEN FALSE
        ELSE IF Len(left) < 21 \/ Len(right) < 21 THEN FALSE
        ELSE is_fist(left) /\ is_fist(right)

\* ------------------------------------------------------------------------
\* Hand poses fed to the pipeline: landmark lists as the hand detector
\* extracts them (21 points, on the camera grid)
\* ------------------------------------------------------------------------

\* A finger as <<mcp, pip, dip, tip>> from the position of its base, in
\* grid steps: extended upward (leaning dx to the side) or folded.
Finger(x, y, state, dx) ==
    IF state = "up"
    THEN << <<x, y, 0>>, <<x + (dx \div 3), y - 14, 0>>,
            <<x + ((2 * dx) \div 3), y - 24, 0>>, <<x + dx, y - 34, 0>> >>
    ELSE << <<x, y, 0>>, <<x, y - 8, 0>>, <<x, y - 2, 0>>, <<x, y + 4, 0>> >>

\* The thumb as <<cmc, mcp, ip, tip>>: raised, beside the fist (left of the
\* index base), across the folded fingers, or stretched sideways.
Thumb(state) ==
    CASE state = "up"   -> << <<88, 150, 0>>, <<80, 138, 0>>, <<76, 126, 0>>, <<74, 110, 0>> >>
      [] state = "side" -> << <<88, 150, 0>>, <<80, 140, 0>>, <<76, 134, 0>>, <<74, 136, 0>> >>
      [] state = "over" -> << <<88, 150, 0>>, <<84, 140, 0>>, <<88, 134, 0>>, <<96, 136, 0>> >>
      [] state = "out"  -> << <<88, 150, 0>>, <<76, 142, 0>>, <<66, 136, 0>>, <<56, 130, 0>> >>

\* grid steps to units
OnGrid(pts) == [ i \in 1..Len(pts) |-> << 10 * pts[i][1], 10 * pts[i][2], 10 * pts[i][3] >> ]

Hand(thumb, index, middle, ring, pinky, dxs) ==
    OnGrid(<< <<100, 160, 0>> >> \o Thumb(thumb)
             \o Finger(90, 120, index, dxs[1]) \o Finger(100, 118, middle, dxs[2])
             \o Finger(110, 120, ring, dxs[3]) \o Finger(118, 124, pinky, dxs[4]))

FistA    == Hand("side", "curl", "curl", "curl", "curl", <<0, 0, 0, 0>>)
FistS    == Hand("over", "curl", "curl", "curl", "curl", <<0, 0, 0, 0>>)
ThumbsUp == Hand("up", "curl", "curl", "curl", "curl", <<0, 0, 0, 0>>)
OpenHand == Hand("out", "up", "up", "up", "up", <<-12, -2, 8, 18>>)
ThreeUp  == Hand("over", "up", "up", "up", "curl", <<-6, 0, 6, 0>>)
Point    == Hand("over", "up", "curl", "curl", "curl", <<0, 0, 0, 0>>)
Peace    == Hand("over", "up", "up", "curl", "curl", <<-10, 6, 0, 0>>)

\* a malformed hand: 20 points (60 values)
ShortHand == SubSeq(FistA, 1, 20)

\* ------------------------------------------------------------------------
\* State
\* ------------------------------------------------------------------------

VARIABLES
    unit,       \* what the run drives: one stabiliser, or the detection loop
    inputs,     \* the poses / control inputs the run draws from
    gc,         \* GestureClassifier:   detection_history, stability_threshold,
                \*                      confidence_scores
    sc,         \* SyllableClassifier:  detection_history, stability_threshold
    cw,         \* CompleteWordDetector: detection_history, last_detected_word,
                \*                      cooldown_frames, usage_stats
    ctl,        \* GestureControls:     control_history, last_control,
                \*                      control_cooldown, cooldown_frames,
                \*                      controls_enabled
    obs,        \* what the last call was given and returned, and a summary
                \* of the stream of calls so far
    hd,         \* AdvancedHandDetector: landmarks_history, quality_history,
                \*                      _last_landmarks
    mw,         \* MainWindow: is_running, detection_mode,
                \*             complete_word_mode_enabled
    fr,         \* what the last iteration of detection_loop did
    th          \* the detection threads and the UI thread

\* ------------------------------------------------------------------------
\* List helpers
\* ------------------------------------------------------------------------

\* seq[-k:]
LastK(seq, k) == IF Len(seq) <= k THEN seq ELSE SubSeq(seq, Len(seq) - k + 1, Len(seq))

\* sum(1 for d in seq if d == x)
Count(seq, x) == Cardinality({ i \in DOMAIN seq : seq[i] = x })

RECURSIVE SeqSum(_)
SeqSum(seq) == IF seq = << >> THEN 0 ELSE Head(seq) + SeqSum(Tail(seq))

Min(a, b) == IF a < b THEN a ELSE b
Max(a, b) == IF a > b THEN a ELSE b

\* ------------------------------------------------------------------------
\* GestureClassifier.predict_gesture
\* ------------------------------------------------------------------------

GestureClassifierInit ==
    [ detection_history |-> << >>, stability_threshold |-> 4,
      confidence_scores |-> << >> ]

\* self.confidence_scores[letter], the empty list for a letter not yet seen
ScoresOf(self, letter) ==
    IF letter \in DOMAIN self.confidence_scores
    THEN self.confidence_scores[letter] ELSE << >>

\* validate_scores that accepts a letter from its second score on
validate_scores_warm(self, letter, scores) ==
    [ self |-> [ self EXCEPT !.confidence_scores =
                   [ l \in DOMAIN self.confidence_scores \cup {letter} |->
                       IF l = letter THEN scores ELSE self.confidence_scores[l] ] ],
      ret |-> IF Len(scores) >= 2 /\ SeqSum(scores) >= 65 * Len(scores)
              THEN letter ELSE None ]

\* _cross_validate_detection: keeps the last 10 confidence scores of the
\* letter and accepts it when their mean is at least confidence_threshold
\* (0.65).  Scores are in hundredths.
validate_scores(self, letter, scores) ==
    [ self |-> [ self EXCEPT !.confidence_scores =
                   [ l \in DOMAIN self.confidence_scores \cup {letter} |->
                       IF l = letter THEN scores ELSE self.confidence_scores[l] ] ],
      ret |-> IF SeqSum(scores) >= 65 * Len(scores) THEN letter ELSE None ]

cross_validate_detection(self, letter, lm) ==
    validate_scores(self, letter,
        LastK(Append(ScoresOf(self, letter),
                     calculate_gesture_confidence(letter, SubSeq(lm, 1, 21))), 10))

\* The raw label of a frame: the cascade's letter after cross validation.
RawLetter(self, lm) ==
    LET current_letter == classify_complete_alphabet(lm)
    IN  IF current_letter = None THEN [ self |-> self, ret |-> None ]
        ELSE cross_validate_detection(self, current_letter, lm)

\* the stability test of predict_gesture with > instead of >= on the length
stable_letter_late(self, history, current_letter) ==
    [ self |-> [ self EXCEPT !.detection_history = history ],
      raw |-> current_letter,
      ret |-> IF Len(history) > self.stability_threshold
                  /\ current_letter # None
                  /\ 10 * Count(LastK(history, self.stability_threshold),
                                current_letter)
                        >= 6 * self.stability_threshold
              THEN current_letter ELSE None ]

\* Appends the raw label and returns it when it fills at least 60% of the
\* last stability_threshold samples.  There is no cooldown and no
\* last-confirmed label in this stabiliser.  Besides the new state (self)
\* and the returned value (ret) the step tells the raw label it judged.
stable_letter(self, history, current_letter) ==
    [ self |-> [ self EXCEPT !.detection_history = history ],
      raw |-> current_letter,
      ret |-> IF Len(history) >= self.stability_threshold
                  /\ current_letter # None
                  /\ 10 * Count(LastK(history, self.stability_threshold),
                                current_letter)
                        >= 6 * self.stability_threshold
              THEN current_letter ELSE None ]

append_letter(self, appended, current_letter) ==
    stable_letter(self,
        IF Len(appended) > self.stability_threshold * 2
        THEN LastK(appended, self.stability_threshold) ELSE appended,
        current_letter)

append_raw(v) ==
    append_letter(v.self, Append(v.self.detection_history, v.ret), v.ret)

predict_gesture(self, lm) ==
    IF lm = NoHand \/ FlatLen(lm) < 63
    THEN [ self |-> self, raw |-> None, ret |-> None ]
    ELSE append_raw(RawLetter(self, lm))

set_stability_threshold(self, threshold) ==
    [ self EXCEPT !.stability_threshold = Max(1, Min(10, threshold)) ]

reset_detection_history(self) == [ self EXCEPT !.detection_history = << >> ]

\* ------------------------------------------------------------------------
\* SyllableClassifier.predict_syllable
\* ------------------------------------------------------------------------

SyllableClassifierInit ==
    [ detection_history |-> << >>, stability_threshold |-> 8 ]

\* stabilize_detection with the length test written == instead of >=
stabilize_detection_exact(self, syllable) ==
    LET appended == Append(self.detection_history, syllable)
        w == self.stability_threshold
        history == IF Len(appended) > w * 2 THEN LastK(appended, w) ELSE appended
        recent_detections == LastK(history, w)
    IN  [ self |-> [ self EXCEPT !.detection_history = history ],
          ret |-> IF Len(history) = w /\ syllable # None
                      /\ Count(recent_detections, syllable) > 0
                      /\ 10 * Count(recent_detections, syllable) >= 6 * w
                  THEN syllable ELSE None ]

\* stabilize_detection without the test that the history holds a window
stabilize_detection_unfilled(self, syllable) ==
    LET appended == Append(self.detection_history, syllable)
        w == self.stability_threshold
        history == IF Len(appended) > w * 2 THEN LastK(appended, w) ELSE appended
        recent_detections == LastK(history, w)
    IN  [ self |-> [ self EXCEPT !.detection_history = history ],
          ret |-> IF syllable # None
                      /\ Count(recent_detections, syllable) > 0
                      /\ 10 * Count(recent_detections, syllable) >= 6 * w
                  THEN syllable ELSE None ]

stabilize_detection(self, syllable) ==
    LET appended == Append(self.detection_history, syllable)
        w == self.stability_threshold
        history == IF Len(appended) > w * 2 THEN LastK(appended, w) ELSE appended
        recent_detections == LastK(history, w)
    IN  [ self |-> [ self EXCEPT !.detection_history = history ],
          ret |-> IF Len(history) >= w /\ syllable # None
                      /\ Count(recent_detections, syllable) > 0
                      /\ 10 * Count(recent_detections, syllable) >= 6 * w
                  THEN syllable ELSE None ]

\* The raw label of a frame: the syllable of the two hands, if any.
RawSyllable(left, right) ==
    combine_letters_to_syllable(detect_letter_in_hand(left, "left"),
                                detect_letter_in_hand(right, "right"))

predict_syllable(self, left, right) ==
    IF left = NoHand \/ right = NoHand THEN [ self |-> self, ret |-> None ]
    ELSE stabilize_detection(self, RawSyllable(left, right))

\* ------------------------------------------------------------------------
\* CompleteWordDetector.detect_complete_word
\* ------------------------------------------------------------------------

CompleteWordDetectorInit ==
    [ detection_history |-> << >>, stability_threshold |-> 8,
      last_detected_word |-> None, cooldown_frames |-> 0,
      cooldown_threshold |-> 30, usage_stats |-> {} ]

\* usage_stats is kept as the set of words used so far (the keys of the
\* dict); the counts are read by the statistics window only.
register_usage(self, word) ==
    [ self EXCEPT !.usage_stats = @ \cup {word} ]

\* detect_complete_word with a majority of 50% instead of 70%
detect_complete_word_half(self, lm, confidence) ==
    IF lm = NoHand \/ FlatLen(lm) < 63 THEN [ self |-> self, ret |-> None ]
    ELSE IF self.cooldown_frames > 0
    THEN [ self |-> [ self EXCEPT !.cooldown_frames = @ - 1 ], ret |-> None ]
    ELSE
      LET gesture_type == classify_word_gesture(SubSeq(lm, 1, 21))
          w == self.stability_threshold
          history == LastK(Append(self.detection_history, gesture_type), w)
          word == word_gestures(gesture_type)
      IN  IF gesture_type = None THEN [ self |-> self, ret |-> None ]
          ELSE IF Len(history) >= w
                    /\ 10 * Count(LastK(history, w), gesture_type) >= 5 * w
                    /\ word # None /\ word # self.last_detected_word
          THEN [ self |-> [ register_usage(self, word) EXCEPT
                              !.last_detected_word = word,
                              !.cooldown_frames = self.cooldown_threshold,
                              !.detection_history = << >> ],
                 ret |-> word ]
          ELSE [ self |-> [ self EXCEPT !.detection_history = history ],
                 ret |-> None ]

\* detect_complete_word with the cooldown counted before the landmarks
\* are looked at
detect_complete_word_cooling_first(self, lm, confidence) ==
    IF self.cooldown_frames > 0
    THEN [ self |-> [ self EXCEPT !.cooldown_frames = @ - 1 ], ret |-> None ]
    ELSE detect_complete_word_half(self, lm, confidence)

detect_complete_word(self, lm, confidence) ==
    IF lm = NoHand \/ FlatLen(lm) < 63 THEN [ self |-> self, ret |-> None ]
    ELSE IF self.cooldown_frames > 0
    THEN [ self |-> [ self EXCEPT !.cooldown_frames = @ - 1 ], ret |-> None ]
    ELSE
      LET gesture_type == classify_word_gesture(SubSeq(lm, 1, 21))
          w == self.stability_threshold
          history == LastK(Append(self.detection_history, gesture_type), w)
          word == word_gestures(gesture_type)
      IN  IF gesture_type = None THEN [ self |-> self, ret |-> None ]
          ELSE IF Len(history) >= w
                    /\ 10 * Count(LastK(history, w), gesture_type) >= 7 * w
                    /\ word # None /\ word # self.last_detected_word
          THEN [ self |-> [ register_usage(self, word) EXCEPT
                              !.last_detected_word = word,
                              !.cooldown_frames = self.cooldown_threshold,
                              !.detection_history = << >> ],
                 ret |-> word ]
          ELSE [ self |-> [ self EXCEPT !.detection_history = history ],
                 ret |-> None ]

\* ------------------------------------------------------------------------
\* GestureControls.process_control
\* ------------------------------------------------------------------------

GestureControlsInit ==
    [ control_history |-> << >>, last_control |-> None,
      control_cooldown |-> 0, cooldown_frames |-> 15,
      frames_without_gesture |-> 0, reset_threshold |-> 10,
      controls_enabled |-> TRUE ]

\* ResolveControl that takes a candidate without looking at the hands
ResolveControl_unchecked(control_gesture, both_hands_data) ==
    IF control_gesture = "CLEAR_CANDIDATE" THEN "CLEAR"
    ELSE IF control_gesture = "SPACE_CANDIDATE" THEN "SPACE"
    ELSE control_gesture

\* The control a call judges: the gesture itself, or CLEAR / SPACE for a
\* candidate that both hands bear out, or None.
ResolveControl(control_gesture, both_hands_data) ==
    IF control_gesture = "CLEAR_CANDIDATE"
    THEN (IF detect_clear_gesture(both_hands_data) THEN "CLEAR" ELSE None)
    ELSE IF control_gesture = "SPACE_CANDIDATE"
    THEN (IF detect_space_both_hands(both_hands_data) THEN "SPACE" ELSE None)
    ELSE control_gesture

\* process_control without the test against last_control
process_control_repeating(self, control_gesture, both_hands_data) ==
    IF self.control_cooldown > 0
    THEN [ self |-> [ self EXCEPT !.control_cooldown = @ - 1 ], ret |-> None ]
    ELSE IF ~self.controls_enabled \/ control_gesture = None
    THEN [ self |-> self, ret |-> None ]
    ELSE
      LET control == ResolveControl(control_gesture, both_hands_data)
          history == LastK(Append(self.control_history, control), 8)
          recent == LastK(history, 5)
      IN  IF control = None THEN [ self |-> self, ret |-> None ]
          ELSE IF Len(history) >= 5 /\ Count(recent, control) >= 4
          THEN [ self |-> [ self EXCEPT !.control_history = history,
                                        !.last_control = control,
                                        !.control_cooldown = self.cooldown_frames ],
                 ret |-> control ]
          ELSE [ self |-> [ self EXCEPT !.control_history = history ],
                 ret |-> None ]

\* control_history is deque(maxlen=8); the test looks at its last 5.
process_control(self, control_gesture, both_hands_data) ==
    IF self.control_cooldown > 0
    THEN [ self |-> [ self EXCEPT !.control_cooldown = @ - 1 ], ret |-> None ]
    ELSE IF ~self.controls_enabled \/ control_gesture = None
    THEN [ self |-> self, ret |-> None ]
    ELSE
      LET control == ResolveControl(control_gesture, both_hands_data)
          history == LastK(Append(self.control_history, control), 8)
          recent == LastK(history, 5)
      IN  IF control = None THEN [ self |-> self, ret |-> None ]
          ELSE IF Len(history) >= 5 /\ Count(recent, control) >= 4
                    /\ control # self.last_control
          THEN [ self |-> [ self EXCEPT !.control_history = history,
                                        !.last_control = control,
                                        !.control_cooldown = self.cooldown_frames ],
                 ret |-> control ]
          ELSE [ self |-> [ self EXCEPT !.control_history = history ],
                 ret |-> None ]

\* ------------------------------------------------------------------------
\* Inputs of a run
\* ------------------------------------------------------------------------

Pose(name) ==
    CASE name = "FistA" -> FistA
      [] name = "FistS" -> FistS
      [] name = "ThumbsUp" -> ThumbsUp
      [] name = "OpenHand" -> OpenHand
      [] name = "ThreeUp" -> ThreeUp
      [] name = "Point" -> Point
      [] name = "Peace" -> Peace
      [] name = "ShortHand" -> ShortHand
      [] name = "NoHand" -> NoHand

\* the hands_data record of a frame, as _process_detection_results_enhanced
\* builds it
HandsData(left, right, landmarks_list, confidence, quality_score) ==
    [ left |-> left, right |-> right, landmarks_list |-> landmarks_list,
      confidence |-> confidence, quality_score |-> quality_score ]

\* both hands at full confidence, in the order left, right
TwoHands(left, right) ==
    HandsData(left, right,
              SelectSeq(<<left, right>>, LAMBDA h : h # NoHand),
              [ left |-> IF left = NoHand THEN 0 ELSE 100,
                right |-> IF right = NoHand THEN 0 ELSE 100 ],
              [ left |-> 0, right |-> 0 ])

\* what a caller hands to process_control
ControlInput(name) ==
    CASE name = "none"   -> [ gesture |-> None, hands |-> TwoHands(Point, NoHand) ]
      [] name = "delete" -> [ gesture |-> "DELETE", hands |-> TwoHands(Point, NoHand) ]
      [] name = "clear2" -> [ gesture |-> "CLEAR_CANDIDATE", hands |-> TwoHands(FistA, FistS) ]
      [] name = "clear1" -> [ gesture |-> "CLEAR_CANDIDATE", hands |-> TwoHands(FistA, NoHand) ]
      [] name = "space2" -> [ gesture |-> "SPACE_CANDIDATE", hands |-> TwoHands(OpenHand, OpenHand) ]
      [] name = "space1" -> [ gesture |-> "SPACE_CANDIDATE", hands |-> TwoHands(NoHand, OpenHand) ]

\* The input sets a run may draw from, per stabiliser.  Each holds two
\* poses with different labels, and inputs that yield no label; the last
\* one of the syllables is the pair of MA with the hands swapped.
Alphabets(u) ==
    CASE u = "letters"   -> { {"FistA", "FistS", "ShortHand"}, {"FistA", "ThumbsUp"} }
      [] u = "syllables" -> { { <<"ThumbsUp", "FistA">>, <<"ThumbsUp", "ThumbsUp">>,
                                <<"NoHand", "FistA">> },
                              { <<"ThumbsUp", "FistA">>, <<"FistA", "FistA">> },
                              { <<"FistA", "ThumbsUp">> } }
      [] u = "words"     -> { {"FistA", "ThumbsUp", "ThreeUp", "ShortHand"} }
      [] u = "controls"  -> { {"delete", "clear2", "clear1", "none"},
                              {"space2", "clear2", "space1"} }

\* ------------------------------------------------------------------------
\* The record of the calls made so far
\* ------------------------------------------------------------------------

\* ceiling of the counter obs.n
MaxCount == 11

\* the number of calls a letter or syllable stream gets before it is reset
MaxCalls == 9

\* the number of samples a stabiliser asks for before it answers
WindowOf(u) ==
    CASE u = "letters" -> gc.stability_threshold
      [] u = "syllables" -> sc.stability_threshold
      [] u = "words" -> cw.stability_threshold
      [] u = "controls" -> 5
      [] OTHER -> 0

\* op, raw, ret: the last call, the raw label it judged, what it returned.
\* calls: the calls made since the history was last empty by construction
\*   or reset.
\* stream, n, confs: the label every call so far had (or "mixed"), and how
\*   many calls and non-None returns there were while that was one label
\*   or a strict alternation of two.
\* altA, altB, alt: the two labels of a strict alternation, while it lasts.
\* x, phase, run: after label x was confirmed (phase 1), a different label
\*   was judged once the cooldown was over, without being confirmed
\*   (phase 2), and x has been judged `run` times in a row since; phase 3
\*   when x was confirmed again, phase 4 when another label was.
\* pat, px, lead, gap: for the word and the control stabiliser, whether the
\*   calls so far are a run of `lead` calls with label px, fewer than a
\*   window (pat 1), then `gap` calls without a label (pat 2, the gap
\*   counted up to the window), then one call with px again (pat 3).
\* letters: the letters the last call of predict_syllable read from the
\*   left and the right hand (None for a hand that is missing).
\* input: the input the last call of predict_gesture, detect_complete_word,
\*   process_control or update_ui was given.
\* rest, again: for process_control, after control x was confirmed and its
\*   cooldown ran out, how many calls in a row came without a control
\*   gesture (counted up to reset_threshold), and how many calls in a row
\*   judged x again after reset_threshold such calls.
\* streak, quiet, added, spaced: for update_ui, how many frames in a row,
\*   the last one included, had the result of the last one; how many
\*   frames in a row had no result while auto-add and auto-space were on;
\*   the symbol the last frame added to the text, and whether it called
\*   auto_add_space.
ObsInit ==
    [ op |-> "init", raw |-> None, ret |-> None, calls |-> 0,
      stream |-> "empty", n |-> 0, confs |-> 0,
      altA |-> "-", altB |-> "-", alt |-> "none",
      x |-> "-", phase |-> 0, run |-> 0,
      pat |-> 0, px |-> "-", lead |-> 0, gap |-> 0,
      letters |-> << None, None >>, input |-> "-",
      streak |-> 0, quiet |-> 0, added |-> None, spaced |-> FALSE,
      rest |-> 0, again |-> 0 ]

\* the pattern of a run, a gap and one more call, after a call that judged
\* the raw label
Pattern(o, raw, w) ==
    IF o.pat = 0 /\ raw = None THEN 0
    ELSE IF o.pat = 0 THEN 1
    ELSE IF o.pat = 1 /\ raw = o.px /\ o.lead < w - 1 THEN 1
    ELSE IF o.pat \in {1, 2} /\ raw = None THEN 2
    ELSE IF o.pat = 2 /\ raw = o.px THEN 3
    ELSE 4

Patterned(o, op, raw, w) ==
    IF op \notin {"detect_complete_word", "process_control"}
           \/ Pattern(o, raw, w) \in {0, 4}
    THEN [ pat |-> IF op \in {"detect_complete_word", "process_control"}
                   THEN Pattern(o, raw, w) ELSE 0,
           px |-> "-", lead |-> 0, gap |-> 0 ]
    ELSE [ pat |-> Pattern(o, raw, w),
           px |-> IF o.pat = 0 THEN raw ELSE o.px,
           lead |-> IF Pattern(o, raw, w) = 1 THEN o.lead + 1 ELSE o.lead,
           gap |-> IF Pattern(o, raw, w) = 2 THEN Min(o.gap + 1, w) ELSE o.gap ]

\* `cooling`: the call was spent on the cooldown counter
Observe(o, op, raw, ret, cooling, w) ==
    LET stream == IF o.stream = "empty" THEN raw
                  ELSE IF o.stream = raw THEN raw ELSE "mixed"
        alt == IF raw = None THEN "broken"
               ELSE IF o.alt = "none" THEN "one"
               ELSE IF o.alt = "one" /\ raw # o.altA THEN "two"
               ELSE IF o.alt = "two" /\ raw # o.raw /\ raw \in {o.altA, o.altB}
                    THEN "two"
               ELSE "broken"
        tracked == stream # "mixed" \/ alt \in {"one", "two"}
        confirmed == ret # None
        phase ==
            IF o.phase = 0 THEN (IF confirmed THEN 1 ELSE 0)
            ELSE IF o.phase = 1
            THEN (IF cooling \/ raw = None \/ raw = o.x THEN 1
                  ELSE IF confirmed THEN 4 ELSE 2)
            ELSE IF o.phase = 2
            THEN (IF ~confirmed THEN 2 ELSE IF raw = o.x THEN 3 ELSE 4)
            ELSE o.phase
    IN  [ op |-> op, raw |-> raw, ret |-> ret,
          calls |-> Min(o.calls + 1, MaxCalls),
          stream |-> stream,
          n |-> IF tracked THEN Min(o.n + 1, MaxCount) ELSE 0,
          confs |-> IF tracked
                    THEN Min(o.confs + (IF confirmed THEN 1 ELSE 0), 2) ELSE 0,
          altA |-> IF alt = "one" THEN raw
                   ELSE IF alt = "two" THEN o.altA ELSE "-",
          altB |-> IF alt = "two" THEN (IF o.alt = "one" THEN raw ELSE o.altB)
                   ELSE "-",
          alt |-> alt,
          x |-> IF phase \in {1, 2} THEN (IF o.phase = 0 THEN raw ELSE o.x)
                ELSE "-",
          phase |-> phase,
          run |-> IF phase = 2 /\ o.phase = 2 /\ raw = o.x
                  THEN Min(o.run + 1, w) ELSE 0,
          pat |-> Patterned(o, op, raw, w).pat,
          px |-> Patterned(o, op, raw, w).px,
          lead |-> Patterned(o, op, raw, w).lead,
          gap |-> Patterned(o, op, raw, w).gap,
          letters |-> << None, None >>, input |-> "-",
      streak |-> 0, quiet |-> 0, added |-> None, spaced |-> FALSE,
      rest |-> 0, again |-> 0 ]

\* ------------------------------------------------------------------------
\* AdvancedHandDetector: quality score, smoothing and validation
\* ------------------------------------------------------------------------

\* Scores are exact integers: a confidence is in hundredths, a quality
\* score in units of 10^-8 (a confidence times two factors in hundredths
\* and the bonus 1.05).  An average quality is kept as the pair of the sum
\* and the number of samples.

\* the score 1.0, the ceiling of _calculate_enhanced_quality
QualityOne == 100000000

\* _last_landmarks does not exist until the first hand is scored
AdvancedHandDetectorInit ==
    [ landmarks_history |-> [ left |-> << >>, right |-> << >> ],
      quality_history |-> [ left |-> << >>, right |-> << >> ],
      last_landmarks |-> None ]

\* the points outside the frame: x or y below 0 or above 1 (2000 units)
out_of_bounds(lm) ==
    Cardinality({ i \in 1..Len(lm) :
                    lm[i][1] < 0 \/ lm[i][1] > 2000 \/ lm[i][2] < 0 \/ lm[i][2] > 2000 })

\* _check_anatomical_consistency_enhanced, in hundredths: 0.08 off for
\* each finger shorter than 0.08 or longer than 0.25, 0.1 off when two
\* neighbouring fingertips are more than 0.3 apart in x, at least 0.3
check_anatomical_consistency_enhanced(lm) ==
    LET finger_pairs == { <<4, 2>>, <<8, 5>>, <<12, 9>>, <<16, 13>>, <<20, 17>> }
        odd == { fp \in finger_pairs :
                   \/ DistLt(P(lm, fp[1]), P(lm, fp[2]), 160)
                   \/ DistGt(P(lm, fp[1]), P(lm, fp[2]), 500) }
        jump == \E i \in {4, 8, 12, 16} : Abs(P(lm, i + 4)[1] - P(lm, i)[1]) > 600
    IN  Max(30, 100 - 8 * Cardinality(odd) - (IF jump THEN 10 ELSE 0))

\* np.linalg.norm(a - b) ** 2 of two landmark arrays of one shape
RECURSIVE ArrayDist2(_, _)
ArrayDist2(a, b) ==
    IF a = << >> THEN 0
    ELSE Dist2(Head(a), Head(b)) + ArrayDist2(Tail(a), Tail(b))

\* the stability factor for a distance (squared) to the last scored hand
stability_of(diff2) ==
    IF diff2 > 1000 * 1000 THEN 80
    ELSE IF diff2 > 600 * 600 THEN 90
    ELSE 100

\* _check_temporal_stability, in hundredths.  The one _last_landmarks is
\* shared by both hands.  Arrays of different shapes make numpy raise: 0.9.
check_temporal_stability(self, lm) ==
    IF self.last_landmarks = None
    THEN [ self |-> [ self EXCEPT !.last_landmarks = lm ], ret |-> 100 ]
    ELSE IF Len(lm) # Len(self.last_landmarks)
    THEN [ self |-> self, ret |-> 90 ]
    ELSE [ self |-> [ self EXCEPT !.last_landmarks = lm ],
           ret |-> stability_of(ArrayDist2(lm, self.last_landmarks)) ]

\* the score from its four ingredients, clipped to 0..1
quality_of(confidence, oob, anatomical_score, stability_score) ==
    Max(0, Min(QualityOne,
        (confidence - 5 * oob) * anatomical_score * stability_score
            * (IF oob = 0 THEN 105 ELSE 100)))

scored(stability, confidence, oob, anatomical_score) ==
    [ self |-> stability.self,
      ret |-> quality_of(confidence, oob, anatomical_score, stability.ret) ]

\* _calculate_enhanced_quality
calculate_enhanced_quality(self, lm, confidence) ==
    IF lm = << >> THEN [ self |-> self, ret |-> 0 ]
    ELSE scored(check_temporal_stability(self, SubSeq(lm, 1, 21)), confidence,
                out_of_bounds(SubSeq(lm, 1, 21)),
                check_anatomical_consistency_enhanced(SubSeq(lm, 1, 21)))

\* comparisons of an average quality [num, den] with a bound in hundredths
QualityLt(q, bound) == q.num < bound * (QualityOne \div 100) * q.den
QualityGt(q, bound) == q.num > bound * (QualityOne \div 100) * q.den

\* MediaPipe names the hands of the mirrored image
ActualHand(hand_label) == IF hand_label = "Left" THEN "right" ELSE "left"

\* the hands_data of a frame before any hand is entered
EmptyHandsData ==
    HandsData(NoHand, NoHand, << >>, [ left |-> 0, right |-> 0 ],
              [ left |-> [ num |-> 0, den |-> 1 ], right |-> [ num |-> 0, den |-> 1 ] ])

\* one hand entered into hands_data, its score into quality_history
record_hand(self, hands_data, hand, landmarks, confidence, history) ==
    [ self |-> [ self EXCEPT !.quality_history[hand] = history ],
      ret |-> [ hands_data EXCEPT
                  ![hand] = landmarks,
                  !.landmarks_list = Append(@, landmarks),
                  !.confidence[hand] = confidence,
                  !.quality_score[hand] =
                      [ num |-> SeqSum(history), den |-> Len(history) ] ] ]

score_hand(q, hands_data, hand, landmarks, confidence) ==
    record_hand(q.self, hands_data, hand, landmarks, confidence,
                LastK(Append(q.self.quality_history[hand], q.ret), 10))

\* the loop of _process_detection_results_enhanced over the hands MediaPipe
\* reports, each a record [label, score, landmarks]
RECURSIVE process_hands(_, _)
process_hands(acc, results) ==
    IF results = << >> THEN acc
    ELSE process_hands(
             score_hand(calculate_enhanced_quality(acc.self, Head(results).landmarks,
                                                   Head(results).score),
                        acc.ret, ActualHand(Head(results).label),
                        Head(results).landmarks, Head(results).score),
             Tail(results))

process_detection_results_enhanced(self, results) ==
    process_hands([ self |-> self, ret |-> EmptyHandsData ], results)

\* np.average of the last Len(weights) arrays of the history, the weights
\* in tenths (they add up to 1.0)
RECURSIVE WeightedSum(_, _, _, _)
WeightedSum(arrays, weights, i, c) ==
    IF arrays = << >> THEN 0
    ELSE Head(weights) * Head(arrays)[i][c]
            + WeightedSum(Tail(arrays), Tail(weights), i, c)

Average(arrays, weights) ==
    [ i \in 1..Len(arrays[1]) |->
        << WeightedSum(arrays, weights, i, 1) \div 10,
           WeightedSum(arrays, weights, i, 2) \div 10,
           WeightedSum(arrays, weights, i, 3) \div 10 >> ]

\* 80% current, 20% previous
smooth_minimal(history) == Average(LastK(history, 2), <<2, 8>>)
smooth_moderate(history) == Average(LastK(history, 3), <<2, 3, 5>>)
smooth_strong(history) == Average(LastK(history, 4), <<1, 2, 3, 4>>)

\* the landmarks _apply_smart_filtering leaves for a hand of this quality
smoothed(history, quality, landmarks) ==
    IF QualityGt(quality, 80)
    THEN (IF Len(history) >= 2 THEN smooth_minimal(history) ELSE landmarks)
    ELSE IF QualityGt(quality, 60)
    THEN (IF Len(history) >= 3 THEN smooth_moderate(history) ELSE landmarks)
    ELSE (IF Len(history) >= 4 THEN smooth_strong(history) ELSE landmarks)

filter_history(acc, hand, history) ==
    [ self |-> [ acc.self EXCEPT !.landmarks_history[hand] = history ],
      ret |-> [ acc.ret EXCEPT
                  ![hand] = smoothed(history, acc.ret.quality_score[hand], @) ] ]

\* the body of the loop of _apply_smart_filtering; landmarks_history is
\* deque(maxlen=4)
filter_hand(acc, hand) ==
    IF acc.ret[hand] = NoHand THEN acc
    ELSE filter_history(acc, hand,
             LastK(Append(acc.self.landmarks_history[hand], acc.ret[hand]), 4))

\* _apply_smart_filtering: landmarks_list keeps the unsmoothed landmarks
apply_smart_filtering(acc) == filter_hand(filter_hand(acc, "left"), "right")

\* rejects without the test of the confidence
rejects_low_quality(self, hands_data, hand) ==
    /\ hands_data[hand] # NoHand
    /\ QualityLt(hands_data.quality_score[hand],
                 IF Len(self.quality_history[hand]) < 5 THEN 40 ELSE 50)

\* the test of _validate_gestures_enhanced: the quality is below the
\* cutoff (0.4 with fewer than 5 samples, else 0.5) and the confidence is
\* below 0.5
rejects(self, hands_data, hand) ==
    /\ hands_data[hand] # NoHand
    /\ QualityLt(hands_data.quality_score[hand],
                 IF Len(self.quality_history[hand]) < 5 THEN 40 ELSE 50)
    /\ hands_data.confidence[hand] < 50

validate_hand(self, hands_data, hand) ==
    IF rejects(self, hands_data, hand)
    THEN [ hands_data EXCEPT ![hand] = NoHand,
                             !.quality_score[hand] = [ num |-> 0, den |-> 1 ] ]
    ELSE hands_data

\* _validate_gestures_enhanced: landmarks_list is left as it is
validate_gestures_enhanced(self, hands_data) ==
    validate_hand(self, validate_hand(self, hands_data, "left"), "right")

validated(acc) ==
    [ self |-> acc.self, ret |-> validate_gestures_enhanced(acc.self, acc.ret) ]

\* detect_hands, steps 5 to 7 (smoothing_enabled is True); `results` is
\* what MediaPipe reports for the frame
detect_hands(self, results) ==
    validated(apply_smart_filtering(process_detection_results_enhanced(self, results)))

\* ------------------------------------------------------------------------
\* MainWindow.detection_loop
\* ------------------------------------------------------------------------

\* GestureClassifier.detect_control_gesture is called by detection_loop but
\* defined nowhere in the sources.  This is the classifier the design
\* describes: a fist is a Clear candidate, an open palm a Space candidate,
\* a pointing index finger Delete.
detect_control_gesture(lm) ==
    IF FlatLen(lm) < 63 THEN None
    ELSE IF is_fist(lm) THEN "CLEAR_CANDIDATE"
    ELSE IF is_hand_fully_open(lm) THEN "SPACE_CANDIDATE"
    ELSE IF classify_word_gesture(SubSeq(lm, 1, 21)) = "POINTING_UP" THEN "DELETE"
    ELSE None

\* the fields of MainWindow.__init__ the loop and update_ui read and write;
\* word_text is the text so far, kept as the sequence of the symbols that
\* were added to it
MainWindowInit ==
    [ is_running |-> FALSE, detection_mode |-> "letters",
      complete_word_mode_enabled |-> TRUE,
      auto_add_enabled |-> TRUE, last_stable_letter |-> "",
      stable_letter_count |-> 0, auto_add_threshold |-> 15,
      last_added_letter |-> "", cooldown_count |-> 0,
      cooldown_threshold |-> 30, auto_space_enabled |-> FALSE,
      no_detection_count |-> 0, auto_space_threshold |-> 90,
      word_text |-> << >> ]

\* auto_add_letter: the letter, or the letters of the syllable, go to the
\* end of the text
auto_add_letter(self, letter) ==
    IF letter # None /\ letter # "-"
    THEN [ self EXCEPT !.word_text = Append(@, letter) ]
    ELSE self

\* auto_add_space: a space after a text that does not end in one.  On an
\* empty text current_text[-2] raises IndexError, which update_ui catches.
auto_add_space(self) ==
    IF self.word_text # << >> /\ self.word_text[Len(self.word_text)] # " "
    THEN [ self EXCEPT !.word_text = Append(@, " ") ]
    ELSE self

handle_auto_add_logic(self, detected_result) ==
    IF self.cooldown_count > 0
    THEN [ self EXCEPT !.cooldown_count = @ - 1 ]
    ELSE IF detected_result # None /\ detected_result # "-"
    THEN LET counted ==
               [ self EXCEPT
                   !.no_detection_count = 0,
                   !.last_stable_letter = detected_result,
                   !.stable_letter_count =
                       IF detected_result = self.last_stable_letter
                       THEN @ + 1 ELSE 1 ]
             threshold == IF Len(detected_result) > 1
                          THEN self.auto_add_threshold + 5
                          ELSE self.auto_add_threshold
         IN  IF counted.stable_letter_count >= threshold
                  /\ detected_result # self.last_added_letter
             THEN [ auto_add_letter(counted, detected_result) EXCEPT
                      !.last_added_letter = detected_result,
                      !.stable_letter_count = 0,
                      !.cooldown_count = self.cooldown_threshold ]
             ELSE counted
    ELSE IF ~self.auto_space_enabled
    THEN [ self EXCEPT !.stable_letter_count = 0 ]
    ELSE IF self.no_detection_count + 1 >= self.auto_space_threshold
    THEN [ auto_add_space(self) EXCEPT !.stable_letter_count = 0,
                                       !.no_detection_count = 0 ]
    ELSE [ self EXCEPT !.stable_letter_count = 0,
                       !.no_detection_count = @ + 1 ]

\* the part of update_ui that feeds the text: handle_auto_add_logic is
\* called for a frame that has a result and no control
update_ui_auto_add(self, detected_result, control_result) ==
    IF self.auto_add_enabled /\ detected_result # None
          /\ control_result = None
    THEN handle_auto_add_logic(self, detected_result)
    ELSE self

\* the main window after an iteration of detection_loop that did f: a
\* confirmed word is shown with no result, an iteration that raised
\* does not get to update_ui
auto_added(self, f) ==
    IF ~f.ui THEN self
    ELSE IF f.complete_word_result # None
    THEN update_ui_auto_add(self, None, None)
    ELSE update_ui_auto_add(self, f.detected_result, f.control_result)

\* What one iteration did: the sides of the hands MediaPipe reported
\* (seen), their confidence and quality score in the validated hands_data,
\* the hands validation took away (rejected), the classifier calls with
\* the side of the hand they were given (calls), the control gestures
\* reported (gestures), the locals of the loop, the results dispatched in
\* order (events), whether update_ui was reached (ui) and the exception
\* that ended the iteration (raised).  n counts the iterations, and held
\* is the frame every iteration so far was given, if it was one.
FrameInit ==
    [ n |-> 0, input |-> "-", held |-> "-", seen |-> {},
      confidence |-> [ left |-> 0, right |-> 0 ],
      quality_score |-> [ left |-> [ num |-> 0, den |-> 1 ],
                          right |-> [ num |-> 0, den |-> 1 ] ],
      rejected |-> {}, calls |-> {}, gestures |-> {},
      complete_word_result |-> None, control_result |-> None,
      detected_result |-> None, events |-> << >>, ui |-> FALSE,
      raised |-> None ]

\* hands_data.get('confidence', {}).get('left', 0) or ...get('right', 0)
ConfidenceOf(hands_data) ==
    IF hands_data.confidence.left # 0 THEN hands_data.confidence.left
    ELSE hands_data.confidence.right

Called(s, fn, side) ==
    [ s EXCEPT !.fr.calls = @ \cup { [ fn |-> fn, side |-> side ] } ]

Dispatched(s, kind, value) ==
    [ s EXCEPT !.fr.events = Append(@, [ kind |-> kind, value |-> value ]) ]

\* update_ui(processed_frame, detected_result, hands_data, control_result)
update_ui(s, detected_result) ==
    IF detected_result = None THEN [ s EXCEPT !.fr.ui = TRUE ]
    ELSE Dispatched([ s EXCEPT !.fr.ui = TRUE ], "result", detected_result)

\* word_result with the word handed to update_ui as detected_result
word_result_shown(s, r) ==
    IF r.ret = None THEN [ s EXCEPT !.cw = r.self ]
    ELSE update_ui(Dispatched([ s EXCEPT !.cw = r.self,
                                         !.fr.complete_word_result = r.ret ],
                              "word", r.ret),
                   r.ret)

\* PRIORIDAD 1: the word detector on landmarks_list[0]; a word is
\* processed, shown, and the iteration ends (continue)
word_result(s, r) ==
    IF r.ret = None THEN [ s EXCEPT !.cw = r.self ]
    ELSE update_ui(Dispatched([ s EXCEPT !.cw = r.self,
                                         !.fr.complete_word_result = r.ret ],
                              "word", r.ret),
                   None)

words_stage(s, window, hands_data, sides) ==
    IF window.complete_word_mode_enabled /\ hands_data.landmarks_list # << >>
    THEN word_result(Called(s, "detect_complete_word", sides[1]),
                     detect_complete_word(s.cw, hands_data.landmarks_list[1],
                                          ConfidenceOf(hands_data)))
    ELSE s

\* PRIORIDAD 2: the control gesture of each hand in turn, until one is
\* confirmed
RECURSIVE control_loop(_, _, _, _)

control_processed(s, r, hands_data, sides, i) ==
    IF r.ret # None
    THEN Dispatched([ s EXCEPT !.ctl = r.self, !.fr.control_result = r.ret ],
                    "control", r.ret)
    ELSE control_loop([ s EXCEPT !.ctl = r.self, !.fr.control_result = None ],
                      hands_data, sides, i + 1)

control_step(s, control_gesture, hands_data, sides, i) ==
    IF control_gesture = None THEN control_loop(s, hands_data, sides, i + 1)
    ELSE control_processed(
             Called([ s EXCEPT !.fr.gestures = @ \cup {control_gesture} ],
                    "process_control", "both"),
             process_control(s.ctl, control_gesture, hands_data),
             hands_data, sides, i)

control_loop(s, hands_data, sides, i) ==
    IF i > Len(hands_data.landmarks_list) THEN s
    ELSE control_step(Called(s, "detect_control_gesture", sides[i]),
                      detect_control_gesture(hands_data.landmarks_list[i]),
                      hands_data, sides, i)

\* With the sources as they are the first call raises AttributeError,
\* which the loop's except clause catches: the iteration ends there.
controls_stage(s, hands_data, sides, classifier) ==
    IF hands_data.landmarks_list = << >> THEN s
    ELSE IF classifier = "absent" THEN [ s EXCEPT !.fr.raised = "AttributeError" ]
    ELSE control_loop(s, hands_data, sides, 1)

\* PRIORIDAD 3: a syllable of the two validated hands, or the first letter
\* one of the hands in landmarks_list gives
RECURSIVE letter_loop(_, _, _, _)

letter_step(s, r, hands_data, sides, i) ==
    IF r.ret # None
    THEN [ s EXCEPT !.gc = r.self, !.fr.detected_result = r.ret ]
    ELSE letter_loop([ s EXCEPT !.gc = r.self ], hands_data, sides, i + 1)

letter_loop(s, hands_data, sides, i) ==
    IF i > Len(hands_data.landmarks_list) THEN s
    ELSE letter_step(Called(s, "predict_gesture", sides[i]),
                     predict_gesture(s.gc, hands_data.landmarks_list[i]),
                     hands_data, sides, i)

syllable_result(s, r) ==
    [ s EXCEPT !.sc = r.self, !.fr.detected_result = r.ret ]

letters_stage(s, window, hands_data, sides) ==
    IF s.fr.control_result # None THEN s
    ELSE IF window.detection_mode = "syllables"
    THEN (IF hands_data.left # NoHand /\ hands_data.right # NoHand
          THEN syllable_result(Called(s, "predict_syllable", "both"),
                               predict_syllable(s.sc, hands_data.left, hands_data.right))
          ELSE s)
    ELSE IF window.detection_mode = "letters"
    THEN letter_loop(s, hands_data, sides, 1)
    ELSE s

shown(s) == update_ui(s, s.fr.detected_result)

after_controls(s, window, hands_data, sides) ==
    IF s.fr.raised # None THEN s
    ELSE shown(letters_stage(s, window, hands_data, sides))

\* after_words without the continue that follows a confirmed word
after_words_through(s, window, hands_data, sides, classifier) ==
    after_controls(controls_stage(s, hands_data, sides, classifier),
                   window, hands_data, sides)

after_words(s, window, hands_data, sides, classifier) ==
    IF s.fr.complete_word_result # None THEN s
    ELSE after_controls(controls_stage(s, hands_data, sides, classifier),
                        window, hands_data, sides)

\* the hands validation took away: reported by MediaPipe, None afterwards
Rejected(hands_data, sides) ==
    { h \in { sides[i] : i \in 1..Len(sides) } : hands_data[h] = NoHand }

detected(s, window, d, sides, classifier) ==
    after_words(
        words_stage([ s EXCEPT !.hd = d.self,
                               !.fr.seen = { sides[i] : i \in 1..Len(sides) },
                               !.fr.confidence = d.ret.confidence,
                               !.fr.quality_score = d.ret.quality_score,
                               !.fr.rejected = Rejected(d.ret, sides) ],
                    window, d.ret, sides),
        window, d.ret, sides, classifier)

\* One iteration of detection_loop on a frame read from the camera.  s is
\* the detector, the four classifiers and the record of the iteration,
\* window the main window's settings.
detection_loop(s, window, results, classifier) ==
    detected(s, window, detect_hands(s.hd, results),
             [ i \in 1..Len(results) |-> ActualHand(results[i].label) ],
             classifier)

\* The threads of the program: the detection threads that start_detection
\* created, by where they are (about to test is_running, inside an
\* iteration, returned from detection_loop, or ended by an exception that
\* left the loop), and the UI thread, which is idle or inside
\* change_detection_mode between the assignment of detection_mode and the
\* reset of the history.  The other fields record what happened: how
\* many iterations were in progress when is_running was last set to False (at_stop) and how many iterations
\* ended since then (since_stop), how many samples that were recorded
\* before the last mode switch the history of the new mode still holds
\* (stale), how many calls the new mode's stabiliser got since the switch
\* (fresh), and whether an iteration returned a result whose window held
\* a sample from before the switch (tainted).
ThreadsInit ==
    [ test |-> 0, frame |-> 0, done |-> 0, dead |-> 0, ui |-> "idle",
      at_stop |-> 0, since_stop |-> 0,
      stale |-> 0, fresh |-> 0, tainted |-> FALSE ]


\* ------------------------------------------------------------------------
\* Runs that drive one stabiliser
\* ------------------------------------------------------------------------

InitStabilizers ==
    /\ unit \in {"letters", "syllables", "words", "controls"}
    /\ inputs \in Alphabets(unit)
    /\ gc = GestureClassifierInit
    /\ sc = SyllableClassifierInit
    /\ cw = CompleteWordDetectorInit
    /\ ctl = GestureControlsInit
    /\ obs = ObsInit
    /\ hd = AdvancedHandDetectorInit
    /\ mw = MainWindowInit
    /\ fr = FrameInit
    /\ th = ThreadsInit

\* a call of GestureClassifier.predict_gesture
PredictGesture ==
    /\ unit = "letters"
    /\ obs.calls < MaxCalls
    /\ \E p \in inputs :
         LET r == predict_gesture(gc, Pose(p))
         IN  /\ gc' = r.self
             /\ obs' = [ Observe(obs, "predict_gesture", r.raw, r.ret, FALSE,
                                 gc.stability_threshold)
                          EXCEPT !.input = p ]
    /\ UNCHANGED <<th, hd, mw, fr, unit, inputs, sc, cw, ctl>>

\* the sensitivity slider, moved before the first frame of a stream
MaxSensitivity == 4

SetStabilityThreshold ==
    /\ unit = "letters"
    /\ gc.detection_history = << >>
    /\ \E t \in 1..MaxSensitivity :
         /\ t # gc.stability_threshold
         /\ gc' = set_stability_threshold(gc, t)
    /\ obs' = [ ObsInit EXCEPT !.op = "set_stability_threshold" ]
    /\ UNCHANGED <<th, hd, mw, fr, unit, inputs, sc, cw, ctl>>

\* SyllableClassifier.reset_detection_history: a new stream starts
ResetSyllableHistory ==
    /\ unit = "syllables"
    /\ sc.detection_history # << >>
    /\ sc' = reset_detection_history(sc)
    /\ obs' = [ ObsInit EXCEPT !.op = "reset_detection_history" ]
    /\ UNCHANGED <<th, hd, mw, fr, unit, inputs, gc, cw, ctl>>

\* the letter predict_syllable has for one hand: none for a missing hand
LetterOf(hand, hand_side) ==
    IF hand = NoHand THEN None ELSE detect_letter_in_hand(hand, hand_side)

\* a call of SyllableClassifier.predict_syllable
PredictSyllable ==
    /\ unit = "syllables"
    /\ obs.calls < MaxCalls
    /\ \E p \in inputs :
         LET left == Pose(p[1])
             right == Pose(p[2])
             r == predict_syllable(sc, left, right)
             raw == IF left = NoHand \/ right = NoHand THEN None
                    ELSE RawSyllable(left, right)
         IN  /\ sc' = r.self
             /\ obs' = [ Observe(obs, "predict_syllable", raw, r.ret, FALSE,
                                 sc.stability_threshold)
                          EXCEPT !.letters = << LetterOf(left, "left"),
                                                LetterOf(right, "right") >> ]
    /\ UNCHANGED <<th, hd, mw, fr, unit, inputs, gc, cw, ctl>>

\* a call of CompleteWordDetector.detect_complete_word
DetectCompleteWord ==
    /\ unit = "words"
    /\ \E p \in inputs :
         LET r == detect_complete_word(cw, Pose(p), 100)
             raw == IF FlatLen(Pose(p)) < 63 THEN None
                    ELSE classify_word_gesture(Pose(p))
         IN  /\ cw' = r.self
             /\ obs' = [ Observe(obs, "detect_complete_word", raw, r.ret,
                                 cw.cooldown_frames > 0 /\ FlatLen(Pose(p)) >= 63,
                                 cw.stability_threshold)
                          EXCEPT !.input = p ]
    /\ UNCHANGED <<th, hd, mw, fr, unit, inputs, gc, sc, ctl>>

\* the record of a call of process_control with input c, made on self:
\* o before the call, seen after it
Rested(o, seen, c, control_gesture, self) ==
    [ seen EXCEPT
        !.input = c,
        !.rest = IF seen.phase # 1 \/ self.control_cooldown > 0 THEN 0
                 ELSE IF control_gesture = None
                 THEN (IF o.again > 0 THEN 1
                       ELSE Min(o.rest + 1, self.reset_threshold))
                 ELSE IF o.rest >= self.reset_threshold /\ seen.raw = o.x
                 THEN o.rest ELSE 0,
        !.again = IF seen.phase = 1 /\ self.control_cooldown = 0
                       /\ control_gesture # None
                       /\ o.rest >= self.reset_threshold /\ seen.raw = o.x
                  THEN Min(o.again + 1, 5) ELSE 0 ]

\* a call of GestureControls.process_control
ProcessControl ==
    /\ unit = "controls"
    /\ \E c \in inputs :
         LET in == ControlInput(c)
             r == process_control(ctl, in.gesture, in.hands)
         IN  /\ ctl' = r.self
             /\ obs' = Rested(obs,
                               Observe(obs, "process_control",
                                       ResolveControl(in.gesture, in.hands),
                                       r.ret, ctl.control_cooldown > 0, 5),
                               c, in.gesture, ctl)
    /\ UNCHANGED <<th, hd, mw, fr, unit, inputs, gc, sc, cw>>

vars == <<unit, inputs, gc, sc, cw, ctl, obs, hd, mw, fr, th>>

NextStabilizers ==
    \/ PredictGesture
    \/ SetStabilityThreshold
    \/ ResetSyllableHistory
    \/ PredictSyllable
    \/ DetectCompleteWord
    \/ ProcessControl

SpecStabilizers == InitStabilizers /\ [][NextStabilizers]_vars

\* ------------------------------------------------------------------------
\* Properties of the stabilisers
\* ------------------------------------------------------------------------

\* every call so far judged the same non-empty raw label
OneLabelHeld == obs.stream \notin {"empty", "mixed", None}

C3_OneConfirmationPerHeldLabel ==
    (unit \in {"words", "controls"} /\ OneLabelHeld /\ obs.n >= WindowOf(unit))
    => obs.confs = 1

C3_Witness ==
    /\ unit = "words" /\ OneLabelHeld /\ obs.n = MaxCount
    /\ obs.confs = 1 /\ cw.cooldown_frames > 0

\* C4 as stated: after X was confirmed, the cooldown ran out and another
\* raw label was judged without being confirmed, a run of X over a full
\* window is confirmed again: the run never gets as long as the window
\* without X being confirmed.
C4_RearmedAfterOtherLabel ==
    (unit \in {"words", "controls"} /\ obs.phase = 2)
    => obs.run < WindowOf(unit)

\* C5: a stream that strictly alternates between two different (non-empty)
\* raw labels never has a confirmation: letters at window 4, syllables at
\* window 8, words at window 8, controls at 4 of the last 5.
C5_AlternationNeverConfirms ==
    (obs.alt = "two" /\ (unit = "letters" => gc.stability_threshold = 4))
    => obs.confs = 0

C5_Witness ==
    /\ unit = "controls" /\ obs.alt = "two" /\ obs.n = MaxCount
    /\ Len(ctl.control_history) = 8

\* C10: from an empty history with stability threshold w, the same pose of
\* letter L on every call of predict_gesture gives None on the calls
\* 1..w-1 and L on call w.
C10_FirstConfirmationAtWindow ==
    (unit = "letters" /\ OneLabelHeld /\ obs.op = "predict_gesture")
    => /\ obs.n < gc.stability_threshold => obs.ret = None
       /\ obs.n = gc.stability_threshold => obs.ret = obs.stream

C10_Witness ==
    /\ unit = "letters" /\ obs.stream = "A" /\ gc.stability_threshold = 3
    /\ obs.n = 3 /\ obs.ret = "A" /\ obs.confs = 1

\* C15 as stated: in the word and the control stabiliser, from the initial
\* state, w-1 calls with one label, then at least w calls without any
\* gesture, then one more call with that label give no confirmation
\* (w the window: 8 for words, 5 for controls).
C15_NoGestureBreaksRun ==
    (unit \in {"words", "controls"} /\ obs.pat = 3
        /\ obs.lead = WindowOf(unit) - 1 /\ obs.gap >= WindowOf(unit))
    => obs.ret = None

\* C16 as stated: right after a call of the word or the control stabiliser
\* that confirms a label, the sample buffer is empty, the last-confirmed
\* label is the one returned, and the cooldown counter holds the configured
\* length (cooldown_threshold 30 for words, cooldown_frames for controls).
C16_ConfirmationClearsBuffer ==
    /\ (unit = "words" /\ obs.ret # None)
         => /\ cw.detection_history = << >>
            /\ cw.last_detected_word = obs.ret
            /\ cw.cooldown_frames = cw.cooldown_threshold
    /\ (unit = "controls" /\ obs.ret # None)
         => /\ ctl.control_history = << >>
            /\ ctl.last_control = obs.ret
            /\ ctl.control_cooldown = ctl.cooldown_frames

\* C18: from an empty history, with the stability threshold 8 of the
\* constructor, predict_syllable called with the left hand showing M and
\* the right hand showing A on every call returns None on the calls 1..7
\* and "MA" on call 8.
C18_SyllableConfirmedAtEighthCall ==
    (unit = "syllables" /\ obs.stream = "MA" /\ obs.op = "predict_syllable")
    => /\ sc.stability_threshold = 8
       /\ obs.n < 8 => obs.ret = None
       /\ obs.n = 8 => obs.ret = "MA"

C18_Witness ==
    /\ unit = "syllables" /\ obs.stream = "MA" /\ obs.n = 8
    /\ obs.ret = "MA" /\ obs.confs = 1
    /\ sc.detection_history = << "MA", "MA", "MA", "MA", "MA", "MA", "MA", "MA" >>

\* C19 as stated: with the roles of the hands swapped (the left hand shows
\* the vowel pose of A, the right hand the consonant pose of M) on every
\* call, predict_syllable returns "MA" once the history holds a window.
C19_SwappedHandsGiveSyllable ==
    (unit = "syllables" /\ inputs = { <<"FistA", "ThumbsUp">> }
        /\ obs.op = "predict_syllable" /\ obs.calls >= sc.stability_threshold)
    => obs.ret = "MA"

\* C20: every return of predict_syllable that is not None is one of the 15
\* supported syllables, its first character the consonant read from the
\* left hand and its second the vowel read from the right hand of that
\* call; the return is None whenever a hand is missing or has no letter.
C20_SyllableFromBothHands ==
    (unit = "syllables" /\ obs.op = "predict_syllable")
    => /\ obs.ret # None
            => /\ obs.ret \in supported_syllables
               /\ Cardinality(supported_syllables) = 15
               /\ obs.ret = obs.letters[1] \o obs.letters[2]
       /\ (obs.letters[1] = None \/ obs.letters[2] = None) => obs.ret = None

C20_Witness ==
    /\ unit = "syllables" /\ obs.op = "predict_syllable"
    /\ obs.ret = "MA" /\ obs.letters = << "M", "A" >>
    /\ obs.stream = "mixed" /\ Count(sc.detection_history, None) > 0

\* C21: process_control confirms CLEAR only on a call whose both_hands_data
\* has a left and a right hand, both fists, and SPACE only on one where
\* both are open; a CLEAR_CANDIDATE or SPACE_CANDIDATE call with a hand
\* missing returns None and leaves control_history as it was.  (DELETE is
\* judged without looking at the hands.)
C21_CandidatesNeedBothHands ==
    /\ []( (unit = "controls" /\ obs.op = "process_control"
                /\ obs.ret \in {"CLEAR", "SPACE"})
           => LET hands == ControlInput(obs.input).hands
              IN  /\ hands.left # NoHand /\ hands.right # NoHand
                  /\ obs.ret = "CLEAR"
                       => is_fist(hands.left) /\ is_fist(hands.right)
                  /\ obs.ret = "SPACE"
                       => is_hand_fully_open(hands.left)
                          /\ is_hand_fully_open(hands.right) )
    /\ [][ (unit = "controls" /\ obs'.op = "process_control"
                /\ ControlInput(obs'.input).gesture
                       \in {"CLEAR_CANDIDATE", "SPACE_CANDIDATE"}
                /\ (ControlInput(obs'.input).hands.left = NoHand
                       \/ ControlInput(obs'.input).hands.right = NoHand))
           => /\ obs'.ret = None
              /\ ctl'.control_history = ctl.control_history ]_vars

C21_Witness ==
    /\ unit = "controls" /\ obs.op = "process_control"
    /\ obs.input = "clear1" /\ ControlInput("clear1").hands.right = NoHand
    /\ obs.calls = 5 /\ obs.ret = None
    /\ ctl.control_history = << "CLEAR", "CLEAR", "CLEAR", "CLEAR" >>

\* C22: a call of predict_gesture or detect_complete_word with a landmark
\* list of fewer than 21 points (63 values) returns None and leaves the
\* classifier and the word detector (history, last confirmed word,
\* cooldown counter, confidence scores) as they were.
C22_MalformedInputIsAbsentHand ==
    [][ (unit \in {"letters", "words"}
            /\ obs'.op \in {"predict_gesture", "detect_complete_word"}
            /\ obs'.input = "ShortHand" /\ FlatLen(Pose("ShortHand")) < 63)
        => obs'.ret = None /\ gc' = gc /\ cw' = cw ]_vars

C22_Witness ==
    /\ unit = "words" /\ obs.op = "detect_complete_word"
    /\ obs.input = "ShortHand" /\ Len(Pose(obs.input)) = 20
    /\ cw.last_detected_word = "BIEN"
    /\ cw.cooldown_frames = cw.cooldown_threshold

\* C23 as stated: for every hand of 21 landmarks the letter cascade
\* (_classify_with_enhanced_rules, reached through
\* _classify_complete_alphabet) returns a letter, never None.
C23_CascadeIsTotal ==
    (unit = "letters" /\ obs.op = "predict_gesture"
        /\ Len(Pose(obs.input)) = 21)
    => classify_complete_alphabet(Pose(obs.input)) # None

\* C24: the raw letter of a frame (the cascade's letter after
\* _cross_validate_detection) depends on the landmarks only: a classifier
\* with any call history (confidence_scores, detection_history) computes
\* for a hand the raw letter a new classifier computes for it.
C24_RawLetterIgnoresHistory ==
    unit = "letters"
    => \A p \in inputs :
          Len(Pose(p)) = 21
          => RawLetter(gc, Pose(p)).ret
                 = RawLetter(GestureClassifierInit, Pose(p)).ret

C24_Witness ==
    /\ unit = "letters" /\ obs.op = "predict_gesture"
    /\ obs.input = "FistS" /\ obs.raw = "S"
    /\ Len(ScoresOf(gc, "A")) >= 2 /\ Len(ScoresOf(gc, "S")) >= 2
    /\ Count(gc.detection_history, "A") >= 2

\* C28 as stated: after a control was confirmed and reset_threshold (10)
\* calls in a row came without a control gesture, the stabiliser is reset:
\* the same control held again for a full window of 5 calls is confirmed
\* a second time, on the call that fills the window.
C28_ControlRepeatsAfterRest ==
    (unit = "controls" /\ obs.op = "process_control"
        /\ obs.again = WindowOf("controls"))
    => obs.ret = obs.x

\* ------------------------------------------------------------------------
\* Runs of the detection loop
\* ------------------------------------------------------------------------

\* a hand moved by dx in the image
Shifted(lm, dx) == [ i \in 1..Len(lm) |-> << lm[i][1] + dx, lm[i][2], lm[i][3] >> ]

\* What MediaPipe reports for a frame: the hands in its order, each with
\* its handedness label, the score of the label (in hundredths) and the
\* 21 landmarks.
Results(name) ==
    CASE name = "none"      -> << >>
      [] name = "fists"     -> << [ label |-> "Right", score |-> 100, landmarks |-> FistA ],
                                  [ label |-> "Left", score |-> 100, landmarks |-> FistS ] >>
      [] name = "open2"     -> << [ label |-> "Left", score |-> 100, landmarks |-> OpenHand ],
                                  [ label |-> "Right", score |-> 100, landmarks |-> OpenHand ] >>
      [] name = "thumb_low" -> << [ label |-> "Right", score |-> 30, landmarks |-> ThumbsUp ] >>
      [] name = "fist_mid"  -> << [ label |-> "Right", score |-> 60, landmarks |-> FistA ] >>
      [] name = "fist_far"  -> << [ label |-> "Right", score |-> 100,
                                    landmarks |-> Shifted(FistA, 160) ] >>
      [] name = "point"     -> << [ label |-> "Right", score |-> 100, landmarks |-> Point ] >>
      [] name = "threeup"   -> << [ label |-> "Left", score |-> 100, landmarks |-> ThreeUp ] >>

\* the frames a run may draw from
Scenarios ==
    { {"fists", "none"}, {"thumb_low", "fist_mid"},
      {"point", "threeup"}, {"open2", "fist_far"} }

\* the number of frames a run reads from the camera
MaxFrames == 9

LoopUnits == {"loop", "loop_ctl", "loop_on"}

InitLoopOf(u) ==
    /\ unit = u
    /\ inputs \in Scenarios
    /\ gc = GestureClassifierInit
    /\ sc = SyllableClassifierInit
    /\ cw = CompleteWordDetectorInit
    /\ ctl = GestureControlsInit
    /\ obs = ObsInit
    /\ hd = AdvancedHandDetectorInit
    /\ mw = MainWindowInit
    /\ fr = FrameInit
    /\ th = ThreadsInit

\* the sources as they are
InitLoop == InitLoopOf("loop")

\* the sources as they are, in runs whose frames do not run out: the camera
\* keeps showing its first frame, and past MaxFrames the counter of the
\* iterations goes between its last two values
InitLoopOn == InitLoopOf("loop_on")

\* the sources with the control classifier of the design put in
InitLoopCtl == InitLoopOf("loop_ctl")

\* start_detection: the detection thread is started
StartDetection ==
    /\ unit \in LoopUnits
    /\ ~mw.is_running
    /\ mw' = [ mw EXCEPT !.is_running = TRUE ]
    /\ UNCHANGED <<th, unit, inputs, gc, sc, cw, ctl, obs, hd, fr>>

\* change_detection_mode, before detection is started: the mode of the
\* radio button, and the history of that mode's classifier reset
ChangeDetectionMode ==
    /\ unit \in LoopUnits
    /\ ~mw.is_running
    /\ \E mode \in {"letters", "syllables"} \ {mw.detection_mode} :
         /\ mw' = [ mw EXCEPT !.detection_mode = mode ]
         /\ sc' = IF mode = "syllables" THEN reset_detection_history(sc) ELSE sc
         /\ gc' = IF mode = "syllables" THEN gc ELSE reset_detection_history(gc)
    /\ UNCHANGED <<th, unit, inputs, cw, ctl, obs, hd, fr>>

\* toggle_complete_word_mode, before detection is started
ToggleCompleteWordMode ==
    /\ unit \in LoopUnits
    /\ ~mw.is_running
    /\ mw' = [ mw EXCEPT !.complete_word_mode_enabled = ~@ ]
    /\ UNCHANGED <<th, unit, inputs, gc, sc, cw, ctl, obs, hd, fr>>

Becomes(s) ==
    /\ hd' = s.hd
    /\ gc' = s.gc
    /\ sc' = s.sc
    /\ cw' = s.cw
    /\ ctl' = s.ctl
    /\ fr' = s.fr
    /\ mw' = auto_added(mw, s.fr)

\* one iteration of detection_loop
DetectionLoop ==
    /\ unit \in LoopUnits
    /\ mw.is_running
    /\ fr.n < MaxFrames \/ unit = "loop_on"
    /\ \E name \in IF unit = "loop_on" /\ fr.n > 0 THEN {fr.input} ELSE inputs :
         Becomes(detection_loop(
                   [ hd |-> hd, gc |-> gc, sc |-> sc, cw |-> cw, ctl |-> ctl,
                     fr |-> [ FrameInit EXCEPT
                                !.n = IF fr.n < MaxFrames THEN fr.n + 1
                                      ELSE MaxFrames - 1,
                                !.input = name,
                                !.held = IF fr.n = 0 \/ fr.held = name
                                         THEN name ELSE "mixed" ] ],
                   mw, Results(name),
                   IF unit = "loop_ctl" THEN "spec" ELSE "absent"))
    /\ UNCHANGED <<th, unit, inputs, obs>>

NextLoop ==
    \/ StartDetection
    \/ ChangeDetectionMode
    \/ ToggleCompleteWordMode
    \/ DetectionLoop

SpecLoop == InitLoop /\ [][NextLoop]_vars

SpecLoopCtl == InitLoopCtl /\ [][NextLoop]_vars

\* ------------------------------------------------------------------------
\* Properties of the detection loop
\* ------------------------------------------------------------------------

EventKinds == { fr.events[i].kind : i \in 1..Len(fr.events) }

\* C1: an iteration of detection_loop dispatches at most one result: never
\* two of complete word, control command and letter/syllable result, and
\* never two of one kind.
C1_AtMostOneEventPerFrame == Len(fr.events) <= 1

C1_Witness ==
    /\ Len(fr.events) = 1 /\ fr.events[1].kind = "word" /\ fr.ui
    /\ fr.complete_word_result = "HOLA"

\* C6 as stated: the landmarks of a hand that validation rejected in this
\* frame are passed to no classifier, and the frame has no event.
C6_RejectedHandReachesNoClassifier ==
    /\ \A c \in fr.calls : c.side \notin fr.rejected
    /\ (fr.rejected # {} /\ fr.seen \subseteq fr.rejected) => fr.events = << >>

\* the average quality of a side after this frame's sample, and the cutoff
AvgQuality(h) ==
    [ num |-> SeqSum(hd.quality_history[h]), den |-> Len(hd.quality_history[h]) ]

Cutoff(h) == IF Len(hd.quality_history[h]) < 5 THEN 40 ELSE 50

MaxThreads == 1

MaxThreadFrames == 5

ThreadUnits == {"threads", "threads_ctl", "threads_pair"}

\* how many threads a run creates: one more in the runs of threads_pair
ThreadLimit == IF unit = "threads_pair" THEN MaxThreads + 1 ELSE MaxThreads

\* the frames a run with threads may draw from: one hand held as a fist
ThreadScenarios == { {"fist_far"} }

InitThreadsOf(u) ==
    /\ unit = u
    /\ inputs \in ThreadScenarios
    /\ gc = GestureClassifierInit
    /\ sc = SyllableClassifierInit
    /\ cw = CompleteWordDetectorInit
    /\ ctl = GestureControlsInit
    /\ obs = ObsInit
    /\ hd = AdvancedHandDetectorInit
    /\ mw = MainWindowInit
    /\ fr = FrameInit
    /\ th = ThreadsInit

\* the sources as they are
InitThreads == InitThreadsOf("threads")

\* the sources with the control classifier of the design put in
InitThreadsCtl == InitThreadsOf("threads_ctl")

\* the sources as they are, in runs that start detection more than once
InitThreadsPair == InitThreadsOf("threads_pair")

\* toggle_detection while stopped: start_detection sets is_running and
\* starts a new daemon thread on detection_loop
StartThread ==
    /\ unit \in ThreadUnits
    /\ th.ui = "idle"
    /\ ~mw.is_running
    /\ th.test + th.frame + th.done + th.dead < ThreadLimit
    /\ mw' = [ mw EXCEPT !.is_running = TRUE ]
    /\ th' = [ th EXCEPT !.test = @ + 1, !.at_stop = 0, !.since_stop = 0 ]
    /\ UNCHANGED <<unit, inputs, gc, sc, cw, ctl, obs, hd, fr>>

\* toggle_detection while running: stop_detection clears is_running; it
\* does not wait for the thread
StopDetection ==
    /\ unit \in ThreadUnits
    /\ th.ui = "idle"
    /\ mw.is_running
    /\ mw' = [ mw EXCEPT !.is_running = FALSE ]
    /\ th' = [ th EXCEPT !.at_stop = th.frame, !.since_stop = 0 ]
    /\ UNCHANGED <<unit, inputs, gc, sc, cw, ctl, obs, hd, fr>>

\* a loop that enters the next iteration whatever the flag is
tested_never(t, is_running) ==
    [ t EXCEPT !.test = @ - 1, !.frame = @ + 1 ]

\* the thread after the test of the flag
tested(t, is_running) ==
    IF is_running
    THEN [ t EXCEPT !.test = @ - 1, !.frame = @ + 1 ]
    ELSE [ t EXCEPT !.test = @ - 1, !.done = @ + 1 ]

\* while self.is_running: a thread tests the flag, and enters an iteration
\* or returns
WhileIsRunning ==
    /\ unit \in ThreadUnits
    /\ th.test > 0
    /\ th' = tested(th, mw.is_running)
    /\ UNCHANGED <<unit, inputs, gc, sc, cw, ctl, obs, hd, mw, fr>>

\* the iterations that ended since is_running was cleared
Ended(t, window) ==
    [ t EXCEPT !.frame = @ - 1,
               !.since_stop = IF window.is_running THEN 0
                              ELSE Min(@ + 1, MaxThreads + 1) ]

\* ret, frame = self.cap.read() gave no frame: continue
NoFrame ==
    /\ unit \in ThreadUnits
    /\ th.frame > 0
    /\ fr.n >= MaxThreadFrames
    /\ th' = [ Ended(th, mw) EXCEPT !.test = @ + 1 ]
    /\ UNCHANGED <<unit, inputs, gc, sc, cw, ctl, obs, hd, mw, fr>>

\* except Exception: the exceptions the handler of the loop catches
caught_none(raised) == FALSE

caught(raised) == raised \in {"AttributeError"}

\* the calls the stabiliser of the current mode got in an iteration
ActiveCalls(s, window) ==
    Cardinality({ c \in s.fr.calls :
                    c.fn = IF window.detection_mode = "syllables"
                           THEN "predict_syllable" ELSE "predict_gesture" })

ActiveWindow(s, window) ==
    IF window.detection_mode = "syllables" THEN s.sc.stability_threshold
    ELSE s.gc.stability_threshold

\* the thread after an iteration: back at the test of is_running, unless
\* an exception left the loop
Iterated(t, s, window, calls) ==
    [ Ended(t, window) EXCEPT
        !.test = IF s.fr.raised = None \/ caught(s.fr.raised) THEN @ + 1 ELSE @,
        !.dead = IF s.fr.raised = None \/ caught(s.fr.raised) THEN @ ELSE @ + 1,
        !.fresh = IF t.stale > 0 THEN @ + calls ELSE 0,
        !.tainted = /\ t.stale > 0 /\ calls > 0
                    /\ s.fr.detected_result # None
                    /\ t.fresh + calls < ActiveWindow(s, window) ]

IterationOf(s, window) ==
    /\ Becomes(s)
    /\ th' = Iterated(th, s, window, ActiveCalls(s, window))

\* one iteration of detection_loop in a detection thread
Iteration ==
    /\ unit \in ThreadUnits
    /\ th.frame > 0
    /\ fr.n < MaxThreadFrames
    /\ \E name \in inputs :
         IterationOf(detection_loop(
                       [ hd |-> hd, gc |-> gc, sc |-> sc, cw |-> cw, ctl |-> ctl,
                         fr |-> [ FrameInit EXCEPT
                                    !.n = fr.n + 1, !.input = name,
                                    !.held = IF fr.n = 0 \/ fr.held = name
                                             THEN name ELSE "mixed" ] ],
                       mw, Results(name),
                       IF unit = "threads_ctl" THEN "spec" ELSE "absent"),
                     mw)
    /\ UNCHANGED <<unit, inputs, obs>>

\* the history of the classifier of a mode
HistoryOf(mode) ==
    IF mode = "syllables" THEN sc.detection_history ELSE gc.detection_history

\* change_detection_mode, first statement: self.detection_mode is assigned
SetDetectionMode ==
    /\ unit \in ThreadUnits
    /\ th.ui = "idle"
    /\ \E mode \in {"letters", "syllables"} \ {mw.detection_mode} :
         /\ mw' = [ mw EXCEPT !.detection_mode = mode ]
         /\ th' = [ th EXCEPT !.ui = "mode_set", !.fresh = 0,
                              !.tainted = FALSE,
                              !.stale = Len(HistoryOf(mode)) ]
    /\ UNCHANGED <<unit, inputs, gc, sc, cw, ctl, obs, hd, fr>>

\* change_detection_mode, the rest: the history of the new mode's
\* classifier is reset
ResetModeHistory ==
    /\ unit \in ThreadUnits
    /\ th.ui = "mode_set"
    /\ sc' = IF mw.detection_mode = "syllables"
             THEN reset_detection_history(sc) ELSE sc
    /\ gc' = IF mw.detection_mode = "syllables"
             THEN gc ELSE reset_detection_history(gc)
    /\ th' = [ th EXCEPT !.ui = "idle", !.stale = 0, !.fresh = 0 ]
    /\ UNCHANGED <<unit, inputs, cw, ctl, obs, hd, mw, fr>>

\* update_sensitivity: the slider sets the letter classifier's threshold
UpdateSensitivity ==
    /\ unit \in ThreadUnits
    /\ th.ui = "idle"
    /\ \E t \in 1..MaxSensitivity :
         /\ t # gc.stability_threshold
         /\ gc' = set_stability_threshold(gc, t)
    /\ UNCHANGED <<th, unit, inputs, sc, cw, ctl, obs, hd, mw, fr>>

\* toggle_complete_word_mode
ToggleWordMode ==
    /\ unit \in ThreadUnits
    /\ th.ui = "idle"
    /\ mw' = [ mw EXCEPT !.complete_word_mode_enabled = ~@ ]
    /\ UNCHANGED <<th, unit, inputs, gc, sc, cw, ctl, obs, hd, fr>>

NextThreads ==
    \/ StartThread
    \/ StopDetection
    \/ WhileIsRunning
    \/ NoFrame
    \/ Iteration
    \/ SetDetectionMode
    \/ ResetModeHistory
    \/ UpdateSensitivity
    \/ ToggleWordMode

SpecThreads == InitThreads /\ [][NextThreads]_vars

SpecThreadsCtl == InitThreadsCtl /\ [][NextThreads]_vars

\* Iteration is enabled, and a step is a step of Iteration: a thread ends
\* an iteration on a frame the camera delivered
IterationEnabled == unit \in ThreadUnits /\ th.frame > 0 /\ fr.n < MaxThreadFrames

Iterates == th'.frame = th.frame - 1 /\ fr'.n = fr.n + 1

\* The scheduler lets every detection thread run: weak fairness of the
\* three steps of a thread, written out for Iteration.
SpecThreadsFair ==
    /\ InitThreads
    /\ [][NextThreads]_vars
    /\ WF_vars(WhileIsRunning)
    /\ WF_vars(NoFrame)
    /\ ([]<>(~IterationEnabled) \/ []<><<Iterates>>_vars)

\* ------------------------------------------------------------------------
\* Properties of the threads
\* ------------------------------------------------------------------------

\* C11: an exception raised in an iteration of detection_loop (the call of
\* the method the classifier does not define) never leaves the loop: the
\* iteration dispatches nothing and does not reach update_ui, no thread is
\* ended by it, and while is_running is true a thread is there to take the
\* next frame.
C11_ErrorsStayInFrame ==
    /\ th.dead = 0
    /\ fr.raised # None => fr.events = << >> /\ ~fr.ui
    /\ mw.is_running => th.test + th.frame >= 1

C11_Witness ==
    /\ fr.raised = "AttributeError" /\ fr.n >= 2
    /\ mw.is_running /\ th.test = 1

\* C13 as stated: while a detection thread is alive, a step of the UI
\* thread (one that moves no detection thread) leaves the state of the
\* four stabilisers as it is.
C13_OnlyWorkerWritesStabilizers ==
    [][ (th.test + th.frame > 0 /\ th'.test = th.test /\ th'.frame = th.frame)
          => (gc' = gc /\ sc' = sc /\ cw' = cw /\ ctl' = ctl) ]_vars

\* C14: after stop_detection cleared is_running, only the iterations that
\* were in progress are finished (at most one for each thread), and unless
\* detection is started again every detection thread returns.
C14_CooperativeStop ==
    /\ [](~mw.is_running => th.since_stop <= th.at_stop)
    /\ (~mw.is_running ~> (mw.is_running \/ th.test + th.frame = 0))

C14_Witness ==
    /\ ~mw.is_running /\ th.since_stop = 1 /\ th.at_stop = 1
    /\ th.done = 1 /\ th.test + th.frame = 0

C17_CooldownCountsEveryFrame ==
    [][ fr'.n = fr.n + 1
          => /\ cw.cooldown_frames > 0
                  => cw'.cooldown_frames = cw.cooldown_frames - 1
             /\ ctl.control_cooldown > 0
                  => ctl'.control_cooldown = ctl.control_cooldown - 1 ]_vars

\* ------------------------------------------------------------------------
\* Runs of update_ui over the results of a stream of frames
\* ------------------------------------------------------------------------

\* the text holds at most this many symbols in a run
MaxText == 2

\* a run stops counting equal results, in stable_letter_count and in the
\* streak, at this
MaxStreak == 21

AutoAddAlphabets == { {"A", "B", "None"}, {"MA", "None", "control"} }

\* positions of the speed scale (1..10, 5 when the window opens)
AutoAddSpeeds == {5, 10}

\* what detection_loop hands to update_ui for a frame: a letter or a
\* syllable, nothing, or a confirmed control (and then no result)
FrameResult(name) ==
    [ detected_result |-> IF name = "control" THEN None ELSE name,
      control_result |-> IF name = "control" THEN "DELETE" ELSE None ]

InitAutoAdd ==
    /\ unit = "autoadd"
    /\ inputs \in AutoAddAlphabets
    /\ gc = GestureClassifierInit
    /\ sc = SyllableClassifierInit
    /\ cw = CompleteWordDetectorInit
    /\ ctl = GestureControlsInit
    /\ obs = ObsInit
    /\ hd = AdvancedHandDetectorInit
    /\ mw = MainWindowInit
    /\ fr = FrameInit
    /\ th = ThreadsInit

Shown(o, window, after, name) ==
    [ o EXCEPT
        !.op = "update_ui", !.input = name,
        !.streak = IF FrameResult(name).detected_result = None THEN 0
                   ELSE IF o.input = name THEN Min(@ + 1, MaxStreak) ELSE 1,
        !.quiet = IF FrameResult(name).detected_result # None
                       \/ ~window.auto_add_enabled \/ ~window.auto_space_enabled
                  THEN 0
                  ELSE IF @ >= window.auto_space_threshold THEN 1 ELSE @ + 1,
        !.added = IF Len(after.word_text) > Len(window.word_text)
                       /\ after.word_text[Len(after.word_text)] # " "
                  THEN after.word_text[Len(after.word_text)] ELSE None,
        !.spaced = after.no_detection_count = 0
                       /\ window.no_detection_count > 0
                       /\ FrameResult(name).detected_result = None ]

\* update_ui at the end of an iteration of detection_loop
UpdateUi ==
    /\ unit = "autoadd"
    /\ Len(mw.word_text) < MaxText
    /\ mw.stable_letter_count < MaxStreak
    /\ \E name \in inputs :
         /\ mw' = update_ui_auto_add(mw, FrameResult(name).detected_result,
                                     FrameResult(name).control_result)
         /\ obs' = Shown(obs, mw, mw', name)
    /\ UNCHANGED <<th, hd, fr, unit, inputs, gc, sc, cw, ctl>>

ToggleAutoSpace ==
    /\ unit = "autoadd"
    /\ mw' = [ mw EXCEPT !.auto_space_enabled = ~@ ]
    /\ obs' = [ obs EXCEPT !.op = "toggle_auto_space", !.quiet = 0 ]
    /\ UNCHANGED <<th, hd, fr, unit, inputs, gc, sc, cw, ctl>>

UpdateAutoAddSpeed ==
    /\ unit = "autoadd"
    /\ \E speed \in AutoAddSpeeds :
         /\ Max(5, 25 - speed * 2) # mw.auto_add_threshold
         /\ mw' = [ mw EXCEPT !.auto_add_threshold = Max(5, 25 - speed * 2),
                              !.cooldown_threshold = Max(10, 50 - speed * 4) ]
    /\ obs' = [ obs EXCEPT !.op = "update_auto_add_speed" ]
    /\ UNCHANGED <<th, hd, fr, unit, inputs, gc, sc, cw, ctl>>

NextAutoAdd ==
    \/ UpdateUi
    \/ ToggleAutoSpace
    \/ UpdateAutoAddSpeed

SpecAutoAdd == InitAutoAdd /\ [][NextAutoAdd]_vars

\* ------------------------------------------------------------------------
\* Properties of the text
\* ------------------------------------------------------------------------

\* C25 as stated: update_ui adds a symbol to the text only on a frame that
\* ends a run of N frames in a row with that same result (N the
\* auto_add_threshold, N + 5 for a result of more than one character); a
\* frame with another result or with none starts the count again.
C25_AddedAfterConsecutiveFrames ==
    (unit = "autoadd" /\ obs.op = "update_ui" /\ obs.added # None)
    => obs.streak >= (IF Len(obs.added) > 1 THEN mw.auto_add_threshold + 5
                      ELSE mw.auto_add_threshold)

\* C30 as stated: with auto_add_enabled and auto_space_enabled, the frame
\* that completes auto_space_threshold frames in a row without a result
\* calls auto_add_space and leaves no_detection_count at 0.
C30_AutoSpaceAfterQuietFrames ==
    (unit = "autoadd" /\ obs.op = "update_ui"
        /\ obs.quiet = mw.auto_space_threshold)
    => obs.spaced /\ mw.no_detection_count = 0

SpecThreadsPair == InitThreadsPair /\ [][NextThreads]_vars

\* C26 as stated: at any time at most one thread is inside detection_loop
\* (about to test is_running or in an iteration), whatever the order of
\* the starts and stops of the UI thread and the tests of the flag.
C26_AtMostOneThreadAlive == th.test + th.frame <= 1

\* ------------------------------------------------------------------------
\* Runs of the detection loop that go on
\* ------------------------------------------------------------------------

LoopEnabled ==
    /\ unit \in LoopUnits /\ mw.is_running
    /\ fr.n < MaxFrames \/ unit = "loop_on"

LoopSteps == fr'.n # fr.n

\* detection is started in the end, and the thread of detection_loop
\* keeps taking frames while there are any
SpecLoopFair ==
    /\ InitLoopOn
    /\ [][NextLoop]_vars
    /\ WF_vars(StartDetection)
    /\ ([]<>(~LoopEnabled) \/ []<><<LoopSteps>>_vars)

\* C27 as stated: in letters mode, with one hand in every frame that holds
\* one letter pose (three fingers up, W) which is no word gesture, some
\* iteration of detection_loop calls predict_gesture and hands a letter to
\* update_ui; the run may instead leave the pose.
C27_LetterReachesUi ==
    (mw.is_running /\ mw.detection_mode = "letters"
        /\ inputs = {"point", "threeup"} /\ fr.n = 0)
    ~> \/ fr.held \notin {"-", "threeup"}
       \/ /\ \E c \in fr.calls : c.fn = "predict_gesture"
          /\ fr.detected_result # None /\ fr.ui

=============================================================================
